---------------------------- MODULE Spec2Model ----------------------------
(***************************************************************************)
(* Model of the receipt checker (src/app.py): the ledger parsers           *)
(* (parse_pdf, parse_html, parse_desc), the bank statement parser          *)
(* (parse_excel), the matching engine (match_receipts) and the lock        *)
(* write-back of the analyze route.                                        *)
(*                                                                         *)
(* Text is a sequence of one-character atoms.  The atoms "0".."9" are the  *)
(* ASCII digits, "fa0".."fa9" the Persian/Arabic digits, lower-case atoms  *)
(* ("a", "sh", "kh", ...) the letters of the Persian block in a fixed      *)
(* transliteration, "k_ar" and "y_ar" the Arabic kaf and yeh, "A".."Z" and *)
(* "_a".."_z" the Latin capitals and small letters, "zwnj"/"zwj" the       *)
(* zero-width joiners, "fa," the Persian comma; everything else is the     *)
(* character itself.  Amounts are whole numbers (Rials).                   *)
(***************************************************************************)
EXTENDS Integers, Sequences, FiniteSets, TLC

(***************************************************************************)
(* Characters                                                              *)
(***************************************************************************)
DIG == <<"0","1","2","3","4","5","6","7","8","9">>
FADIG == <<"fa0","fa1","fa2","fa3","fa4","fa5","fa6","fa7","fa8","fa9">>

AsciiDigits == {DIG[i] : i \in 1..10}
FaDigits == {FADIG[i] : i \in 1..10}

LatinUpper ==
    {"A","B","C","D","E","F","G","H","I","J","K","L","M",
     "N","O","P","Q","R","S","T","U","V","W","X","Y","Z"}
LatinLower ==
    {"_a","_b","_c","_d","_e","_f","_g","_h","_i","_j","_k","_l","_m",
     "_n","_o","_p","_q","_r","_s","_t","_u","_v","_w","_x","_y","_z"}
UPPER == <<"A","B","C","D","E","F","G","H","I","J","K","L","M",
           "N","O","P","Q","R","S","T","U","V","W","X","Y","Z">>
LOWER == <<"_a","_b","_c","_d","_e","_f","_g","_h","_i","_j","_k","_l","_m",
           "_n","_o","_p","_q","_r","_s","_t","_u","_v","_w","_x","_y","_z">>

FaLetters ==
    {"a","aa","b","p","t","th","j","ch","hh","kh","d","dh","r","z","zh","s","sh",
     "ss","zz","tt","zt","ay","gh","f","q","k","g","l","m","n","v","h","y","yh",
     "k_ar","y_ar"}

\* the character class [\u0600-\u06FF]
IsFa(c) == c \in FaLetters \/ c \in FaDigits \/ c \in {"fa,", "tanvin"}
\* \d of a str pattern: every Unicode decimal digit
IsDigit(c) == c \in AsciiDigits \/ c \in FaDigits
\* [A-Za-z]
IsLatin(c) == c \in LatinUpper \/ c \in LatinLower
\* \w
IsWordChar(c) == c \in FaLetters \/ IsLatin(c) \/ IsDigit(c) \/ c = "_"
\* \s
IsSpace(c) == c = " "

\* str.translate(FA_DIGITS), one character
TranslateChar(c) ==
    IF c \in FaDigits THEN DIG[CHOOSE i \in 1..10 : FADIG[i] = c] ELSE c

\* str.lower(), one character
LowerChar(c) ==
    IF c \in LatinUpper THEN LOWER[CHOOSE i \in 1..26 : UPPER[i] = c] ELSE c

(***************************************************************************)
(* Strings                                                                 *)
(***************************************************************************)
MapStr(F(_), s) == [i \in 1..Len(s) |-> F(s[i])]

FA_DIGITS(s) == MapStr(TranslateChar, s)

Lower(s) == MapStr(LowerChar, s)

RECURSIVE Concat(_)
Concat(ss) == IF ss = <<>> THEN <<>> ELSE Head(ss) \o Concat(Tail(ss))

\* sep.join(ss)
RECURSIVE Join(_, _)
Join(sep, ss) ==
    IF ss = <<>> THEN <<>>
    ELSE IF Len(ss) = 1 THEN ss[1]
    ELSE ss[1] \o sep \o Join(sep, Tail(ss))

\* s[a:b] for 0 <= a <= b <= len(s)
Slice(s, a, b) == SubSeq(s, a + 1, b)

\* s[-n:]
LastN(s, n) == IF Len(s) <= n THEN s ELSE SubSeq(s, Len(s) - n + 1, Len(s))

\* s[:n]
FirstN(s, n) == IF Len(s) <= n THEN s ELSE SubSeq(s, 1, n)

\* p occurs in s at (1-based) position i
OccursAt(p, s, i) ==
    /\ i >= 1
    /\ i + Len(p) - 1 <= Len(s)
    /\ \A j \in 1..Len(p) : s[i + j - 1] = p[j]

\* p in s
Contains(s, p) == \E i \in 1..(Len(s) - Len(p) + 1) : OccursAt(p, s, i)

\* re.search of a pattern that is an alternation of literals
ContainsAny(s, alts) == \E p \in alts : Contains(s, p)

\* s with the characters satisfying Drop removed
RECURSIVE Remove(_, _)
Remove(Drop(_), s) ==
    IF s = <<>> THEN <<>>
    ELSE IF Drop(Head(s)) THEN Remove(Drop, Tail(s))
    ELSE <<Head(s)>> \o Remove(Drop, Tail(s))

\* str.strip()
RECURSIVE LStrip(_)
LStrip(s) == IF s # <<>> /\ IsSpace(Head(s)) THEN LStrip(Tail(s)) ELSE s

RECURSIVE RStrip(_)
RStrip(s) ==
    IF s # <<>> /\ IsSpace(s[Len(s)]) THEN RStrip(SubSeq(s, 1, Len(s) - 1)) ELSE s

Strip(s) == RStrip(LStrip(s))

\* the end (1-based, inclusive) of the longest run of characters satisfying
\* In that starts at i; i - 1 when s[i] is not in the class
RECURSIVE RunEnd(_, _, _)
RunEnd(In(_), s, i) ==
    IF i <= Len(s) /\ In(s[i]) THEN RunEnd(In, s, i + 1) ELSE i - 1

\* the start of the longest run of characters satisfying In that ends at i;
\* i + 1 when s[i] is not in the class
RECURSIVE RunStart(_, _, _)
RunStart(In(_), s, i) ==
    IF i >= 1 /\ In(s[i]) THEN RunStart(In, s, i - 1) ELSE i + 1

\* \b between positions i and i + 1 of s (0 <= i <= len(s))
WordBoundary(s, i) ==
    LET before == i >= 1 /\ IsWordChar(s[i])
        after  == i + 1 <= Len(s) /\ IsWordChar(s[i + 1])
    IN  before # after

\* the starts of the maximal runs of In-characters of s
RunStarts(In(_), s) ==
    {i \in 1..Len(s) : In(s[i]) /\ (i = 1 \/ ~In(s[i - 1]))}

\* the value of a string of ASCII digits
RECURSIVE DigitsValue(_)
DigitsValue(s) ==
    IF s = <<>> THEN 0
    ELSE 10 * DigitsValue(SubSeq(s, 1, Len(s) - 1))
         + ((CHOOSE i \in 1..10 : DIG[i] = s[Len(s)]) - 1)

\* lexicographic order of strings of digits, as sorted() orders them
RECURSIVE StrLess(_, _)
StrLess(a, b) ==
    IF b = <<>> THEN FALSE
    ELSE IF a = <<>> THEN TRUE
    ELSE IF Head(a) = Head(b) THEN StrLess(Tail(a), Tail(b))
    ELSE LET ia == CHOOSE i \in 1..10 : DIG[i] = Head(a)
             ib == CHOOSE i \in 1..10 : DIG[i] = Head(b)
         IN  ia < ib

\* sorted(set of digit strings)
RECURSIVE Sorted(_)
Sorted(S) ==
    IF S = {} THEN <<>>
    ELSE LET m == CHOOSE x \in S : \A y \in S \ {x} : StrLess(x, y)
         IN  <<m>> \o Sorted(S \ {m})

Range(f) == {f[i] : i \in DOMAIN f}

\* min(S) and max(S) of a non-empty set of numbers
Least(S) == CHOOSE x \in S : \A y \in S : x <= y

Greatest(S) == CHOOSE x \in S : \A y \in S : x >= y

\* [x for x in xs if Keep(x)]
RECURSIVE Filter(_, _)
Filter(Keep(_), xs) ==
    IF xs = <<>> THEN <<>>
    ELSE IF Keep(Head(xs)) THEN <<Head(xs)>> \o Filter(Keep, Tail(xs))
    ELSE Filter(Keep, Tail(xs))

(***************************************************************************)
(* Number utilities                                                        *)
(***************************************************************************)
\* None, where a number is expected (no amount has this value)
None == -999999999

\* float(u) for unsigned text u whose leading digits end at e
Magnitude(u, e) ==
    IF e = 0 THEN None
    ELSE IF e < Len(u) /\ (u[e + 1] # "." \/ \E i \in (e + 2)..Len(u) : u[i] # "0")
    THEN None
    ELSE DigitsValue(SubSeq(u, 1, e))

\* float(t) for cleaned text t, v the value of t without its sign
Signed(t, v) ==
    IF t = <<>> \/ v = None THEN None
    ELSE IF Head(t) = "-" THEN 0 - v ELSE v

\* float("inf"), above every amount
Infinity == 900000000

\* float(t) for cleaned text t, u the text without its sign: "inf" and
\* "infinity" in any case are the infinite float
Float(t, u) ==
    IF Lower(u) \in {<<"_i","_n","_f">>, <<"_i","_n","_f","_i","_n","_i","_t","_y">>}
    THEN Signed(t, Infinity)
    ELSE Signed(t, Magnitude(u, RunEnd(LAMBDA c : c \in AsciiDigits, u, 1)))

\* the text after a leading sign
Unsigned(t) == IF t # <<>> /\ Head(t) \in {"-", "+"} THEN Tail(t) ELSE t

\* s with the Persian digits translated, the commas and spaces removed
Cleaned(s) == Strip(Remove(LAMBDA c : c \in {",", "fa,", " "}, FA_DIGITS(s)))

\* to_num: float(s) after the Persian digits are translated and the commas
\* and spaces removed; None for the empty string and for text float()
\* rejects.  Amounts are whole numbers: a sign, digits and an optional
\* all-zero fraction; numbers with a non-zero fraction or an exponent are
\* not among the modelled inputs, nor is "nan".
to_num(s) == Float(Cleaned(s), Unsigned(Cleaned(s)))

\* x or 0
OrZero(x) == IF x = None THEN 0 ELSE x

\* nrm: normalise a Persian/Arabic string for comparison
RECURSIVE CollapseSpaces(_)
CollapseSpaces(s) ==
    IF Len(s) < 2 THEN s
    ELSE IF IsSpace(s[1]) /\ IsSpace(s[2]) THEN CollapseSpaces(Tail(s))
    ELSE <<s[1]>> \o CollapseSpaces(Tail(s))

NrmChar(c) ==
    IF c \in {"zwnj", "zwj"} THEN " "
    ELSE IF c = "k_ar" THEN "k"
    ELSE IF c = "y_ar" THEN "y"
    ELSE c

nrm(s) == Lower(Strip(CollapseSpaces(MapStr(NrmChar, s))))

(***************************************************************************)
(* Excel parser                                                            *)
(***************************************************************************)
\* the header keyword patterns, matched with re.I
HdrCredit ==
    {<<"b","s","t","a","n","k","a","r">>,
     <<"v","a","r","y","z">>,
     <<"_c","_r","_e","_d","_i","_t">>,
     <<"d","r","y","a","f","t","y">>}
HdrDebit ==
    {<<"b","d","h","k","a","r">>,
     <<"b","r","d","a","sh","t">>,
     <<"_d","_e","_b","_i","_t">>,
     <<"p","r","d","a","kh","t","y">>}
HdrAmount ==
    {<<"m","b","l","gh">>,
     <<"_a","_m","_o","_u","_n","_t">>}
HdrDate ==
    {<<"t","a","r","y","kh">>,
     <<"_d","_a","_t","_e">>}
HdrDesc ==
    {<<"sh","r","hh">>,
     <<"t","v","zz","y","hh">>,
     <<"_d","_e","_s","_c","_r","_i","_p","_t","_i","_o","_n">>,
     <<"b","a","b","t">>,
     <<"n","v","ay">>}
HdrRefWords ==
    {<<"m","r","j","ay">>,
     <<"p","y","g","y","r","y">>,
     <<"_r","_e","_f","_e","_r","_e","_n","_c","_e">>,
     <<"sh","n","a","s","h">>,
     <<"a","r","j","a","ay">>,
     <<"_t","_r","_a","_c","_e">>}

Shomare == <<"sh","m","a","r","h">>
Sanad == <<"s","n","d">>

\* the deposit / withdrawal vocabulary looked for in a description
DescDeposit ==
    {<<"v","a","r","y","z">>,
     <<"b","s","t","a","n","k","a","r">>,
     <<"d","r","y","a","f","t">>,
     <<"a","ay","t","b","a","r">>}
DescWithdrawal ==
    {<<"b","r","d","a","sh","t">>,
     <<"b","d","h","k","a","r">>,
     <<"p","r","d","a","kh","t">>,
     <<"kh","r","y","d">>}
AutoDeposit ==
    {<<"v","a","r","y","z">>,
     <<"b","s","t","a","n","k","a","r">>,
     <<"d","r","y","a","f","t">>}
AutoWithdrawal ==
    {<<"b","r","d","a","sh","t">>,
     <<"b","d","h","k","a","r">>,
     <<"p","r","d","a","kh","t">>}

\* the "already reconciled" marker phrase
LockMarker == <<"t","tt","b","y","q"," ","sh","d","h">>

\* range(min(20, len(df_raw)))
HeaderScanRows == 20
\* if hits >= 3
HeaderMinHits == 3

\* re.search(r"p\s*q", s)
ContainsSpaced(s, p, q) ==
    \E i \in 1..Len(s) :
        /\ OccursAt(p, s, i)
        /\ OccursAt(q, s, RunEnd(IsSpace, s, i + Len(p)) + 1)

SearchCredit(c) == ContainsAny(Lower(c), HdrCredit)
SearchDebit(c) == ContainsAny(Lower(c), HdrDebit)
SearchAmount(c) == ContainsAny(Lower(c), HdrAmount)
SearchDate(c) == ContainsAny(Lower(c), HdrDate)
SearchDesc(c) == ContainsAny(Lower(c), HdrDesc)
SearchRef(c) ==
    ContainsSpaced(Lower(c), Shomare, Sanad) \/ ContainsAny(Lower(c), HdrRefWords)

\* the chain deciding on the patterns alone: a cell that matches a claimed
\* category claims nothing
FirstPattern(c, claimed) ==
    LET Unclaimed(cat) == IF cat \notin claimed THEN cat ELSE ""
    IN  IF SearchCredit(c) THEN Unclaimed("credit")
        ELSE IF SearchDebit(c) THEN Unclaimed("debit")
        ELSE IF SearchAmount(c) THEN Unclaimed("amount")
        ELSE IF SearchDate(c) THEN Unclaimed("date")
        ELSE IF SearchDesc(c) THEN Unclaimed("desc")
        ELSE IF SearchRef(c) THEN Unclaimed("ref")
        ELSE ""

\* the if/elif chain of the header scan: the category the cell claims, given
\* the categories already in tmp; "" when it claims none
CellCategory(c, claimed) ==
    IF SearchCredit(c) /\ "credit" \notin claimed THEN "credit"
    ELSE IF SearchDebit(c) /\ "debit" \notin claimed THEN "debit"
    ELSE IF SearchAmount(c) /\ "amount" \notin claimed THEN "amount"
    ELSE IF SearchDate(c) /\ "date" \notin claimed THEN "date"
    ELSE IF SearchDesc(c) /\ "desc" \notin claimed THEN "desc"
    ELSE IF SearchRef(c) /\ "ref" \notin claimed THEN "ref"
    ELSE ""

\* tmp after the cells ci.. of a row: category -> column (1-based)
RECURSIVE ScanCells(_, _, _)
ScanCells(row, ci, tmp) ==
    LET Claim(cat) == IF cat = "" THEN tmp ELSE tmp @@ (cat :> ci)
    IN  IF ci > Len(row) THEN tmp
        ELSE ScanCells(row, ci + 1, Claim(CellCategory(Strip(row[ci]), DOMAIN tmp)))

EmptyMap == [k \in {} |-> 0]

RowColMap(row) == ScanCells(row, 1, EmptyMap)

Min(a, b) == IF a < b THEN a ELSE b

\* header_idx (0-based; -1 when no scanned row scores 3 hits)
HeaderIdx(df_raw) ==
    LET First(ok) == IF ok = {} THEN 0 - 1 ELSE CHOOSE ri \in ok : \A rj \in ok : ri <= rj
    IN  First({ri \in 0..(Min(HeaderScanRows, Len(df_raw)) - 1) :
                  Cardinality(DOMAIN RowColMap(df_raw[ri + 1])) >= HeaderMinHits})

\* [^\-\s\d]
IsNameChar(c) == c # "-" /\ ~IsSpace(c) /\ ~IsDigit(c)
\* [-\s]
IsNameSep(c) == c = "-" \/ IsSpace(c)

\* s[j..] is X{3,}(?:[\s\-]X{3,})* up to the end of s, X = [^\-\s\d]
RECURSIVE NameTail(_, _)
NameTail(s, j) ==
    LET e == RunEnd(IsNameChar, s, j)
    IN  /\ e - j + 1 >= 3
        /\ \/ e = Len(s)
           \/ /\ e + 1 < Len(s)
              /\ IsNameSep(s[e + 1])
              /\ NameTail(s, e + 2)

\* the sender of a header-path row: the trailing run of name tokens of the
\* description, else the description
ExcelSender(desc) ==
    LET Name(g) == Strip([k \in 1..Len(g) |-> IF g[k] = "-" THEN " " ELSE g[k]])
        From(starts) ==
            IF starts = {} THEN desc
            ELSE Name(SubSeq(desc, (CHOOSE x \in starts : \A y \in starts : x <= y) + 1,
                             Len(desc)))
    IN  From({i \in 1..Len(desc) : IsNameSep(desc[i]) /\ NameTail(desc, i + 1)})

\* the maximal digit runs of s, as (start, end) pairs
DigitRuns(s) ==
    {<<i, RunEnd(IsDigit, s, i)>> : i \in RunStarts(IsDigit, s)}

RunText(s, r) == SubSeq(s, r[1], r[2])
RunLen(r) == r[2] - r[1] + 1

\* re.sub(r"\D", "", s)
OnlyDigits(s) == Remove(LAMBDA c : ~IsDigit(c), s)

\* the groups of re.finditer(r"(\d{4,})[A-Za-z]", ref), as runs
DigitsBeforeLatin(ref) ==
    {r \in DigitRuns(ref) :
        RunLen(r) >= 4 /\ r[2] < Len(ref) /\ IsLatin(ref[r[2] + 1])}

\* the matches of \b(\d{lo,hi})\b in s, as runs
BoundedDigitRuns(s, lo, hi) ==
    {r \in DigitRuns(s) :
        /\ RunLen(r) >= lo
        /\ RunLen(r) <= hi
        /\ WordBoundary(s, r[1] - 1)
        /\ WordBoundary(s, r[2])}

\* the first cell of the row holding the marker phrase, 0 when none does
LockCell(row) ==
    LET First(hit) == IF hit = {} THEN 0 ELSE CHOOSE ci \in hit : \A cj \in hit : ci <= cj
    IN  First({ci \in 1..Len(row) : Contains(row[ci], LockMarker)})

\* g(k): the cell under the column mapped to k, stripped; "" without one
MappedCell(row, col_map, k) ==
    IF k \in DOMAIN col_map THEN Strip(row[col_map[k]]) ELSE <<>>

\* to_num(g(k)) or 0 if k in col_map else 0
MappedAmount(row, col_map, k) ==
    IF k \in DOMAIN col_map THEN OrZero(to_num(MappedCell(row, col_map, k))) ELSE 0

\* amt: the first positive of the credit, debit and general amounts
HeaderAmount(credit_amt, debit_amt, general_amt) ==
    IF credit_amt > 0 THEN credit_amt
    ELSE IF debit_amt > 0 THEN debit_amt
    ELSE IF general_amt > 0 THEN general_amt
    ELSE 0

\* tx_type: by the column the amount came from, a general amount by the
\* vocabulary of the description
HeaderTxType(credit_amt, debit_amt, general_amt, desc) ==
    IF credit_amt > 0 THEN "deposit"
    ELSE IF debit_amt > 0 THEN "withdrawal"
    ELSE IF general_amt > 0
         THEN IF ContainsAny(desc, DescDeposit) THEN "deposit"
              ELSE IF ContainsAny(desc, DescWithdrawal) THEN "withdrawal"
              ELSE "unknown"
    ELSE "unknown"

\* amt_raw = g("amount") or g("credit") or g("debit")
AmtRaw(amount, credit, debit) ==
    IF amount # <<>> THEN amount ELSE IF credit # <<>> THEN credit ELSE debit

\* bank_codes: the digits of the reference, the digits before Latin letters
\* in it, the long numbers of the description and its 4 to 8 digit numbers
\* other than the amount text
BankCodes(ref, ref_digits, eng, desc_n, amt_raw) ==
    (IF Len(ref_digits) >= 4 THEN {ref_digits} ELSE {})
    \cup {RunText(ref, r) : r \in eng}
    \cup {RunText(desc_n, r) : r \in {x \in DigitRuns(desc_n) : RunLen(x) >= 10}}
    \cup {c \in {RunText(desc_n, r) : r \in BoundedDigitRuns(desc_n, 4, 8)} :
             c # FA_DIGITS(amt_raw)}

\* last4: the first run of digits before a Latin letter, else the digits of
\* the reference
Last4(ref, ref_digits, eng) ==
    IF eng = {} THEN ref_digits
    ELSE RunText(ref, CHOOSE r \in eng : \A q \in eng : r[1] <= q[1])

\* lock_text: the cell holding the marker, stripped
LockText(row, lc) == IF lc # 0 THEN Strip(row[lc]) ELSE <<>>

\* the transaction of a row below the header, from its cells and amounts
HeaderTxn(row, row_num, ref, date, desc, credit_amt, debit_amt, general_amt, amt_raw) ==
    IF ref = <<>> /\ HeaderAmount(credit_amt, debit_amt, general_amt) = 0 /\ date = <<>>
    THEN [skip |-> TRUE]
    ELSE [skip      |-> FALSE,
          row_num   |-> row_num,
          ref       |-> ref,
          last4     |-> Last4(ref, OnlyDigits(ref), DigitsBeforeLatin(ref)),
          all_codes |-> BankCodes(ref, OnlyDigits(ref), DigitsBeforeLatin(ref),
                                  FA_DIGITS(desc), amt_raw),
          amount    |-> HeaderAmount(credit_amt, debit_amt, general_amt),
          tx_type   |-> HeaderTxType(credit_amt, debit_amt, general_amt, desc),
          date      |-> date,
          desc      |-> desc,
          sender    |-> ExcelSender(desc),
          is_locked |-> LockCell(row) # 0,
          lock_text |-> LockText(row, LockCell(row))]

\* the cells of one row under the mapped columns
MappedRow(row, col_map, row_num) ==
    HeaderTxn(row, row_num,
              MappedCell(row, col_map, "ref"),
              MappedCell(row, col_map, "date"),
              MappedCell(row, col_map, "desc"),
              MappedAmount(row, col_map, "credit"),
              MappedAmount(row, col_map, "debit"),
              MappedAmount(row, col_map, "amount"),
              AmtRaw(MappedCell(row, col_map, "amount"),
                     MappedCell(row, col_map, "credit"),
                     MappedCell(row, col_map, "debit")))

\* a row below the header numbered by its 0-based index in the grid
ZeroBased(df_raw, col_map, ri) == MappedRow(df_raw[ri + 1], col_map, ri)

\* one row below the header; [skip |-> TRUE] for a row that is discarded
HeaderRow(df_raw, col_map, ri) == MappedRow(df_raw[ri + 1], col_map, ri + 1)

\* " ".join(str(c) for c in row)
JoinCells(row) == Join(<<" ">>, row)

\* float(m) > 10000 for a run m of ASCII digits, whatever its length
Over10000(m) ==
    LET z == RunEnd(LAMBDA c : c = "0", m, 1)
        sig == SubSeq(m, z + 1, Len(m))
    IN  Len(sig) > 5 \/ (Len(sig) = 5 /\ DigitsValue(sig) > 10000)

\* the sender of a fallback row: re.search of
\* [\u0600-\u06FF]{4,}(?:\s[\u0600-\u06FF]{3,})* in the joined row
RECURSIVE FaNameEnd(_, _)
FaNameEnd(s, e) ==
    IF e + 1 < Len(s) /\ IsSpace(s[e + 1])
       /\ RunEnd(IsFa, s, e + 2) - (e + 2) + 1 >= 3
    THEN FaNameEnd(s, RunEnd(IsFa, s, e + 2))
    ELSE e

AutoSender(joined) ==
    LET Name(i) == SubSeq(joined, i, FaNameEnd(joined, RunEnd(IsFa, joined, i)))
        From(starts) ==
            IF starts = {} THEN <<>>
            ELSE Name(CHOOSE x \in starts : \A y \in starts : x <= y)
    IN  From({i \in RunStarts(IsFa, joined) : RunEnd(IsFa, joined, i) - i + 1 >= 4})

\* the longest of refs, the first of the longest in the order of the text
\* (sorted(refs, key=len, reverse=True)[0], a stable sort)
LongestFirst(s, runs) ==
    CHOOSE r \in runs :
        \A q \in runs : RunLen(q) < RunLen(r) \/ (RunLen(q) = RunLen(r) /\ r[1] <= q[1])

\* the transaction of a fallback row, from the references and amounts found
AutoTxn(row, row_num, joined, ref, amt, tx_type) ==
    [skip      |-> FALSE,
     row_num   |-> row_num,
     ref       |-> ref,
     last4     |-> IF Len(ref) >= 4 THEN LastN(ref, 4) ELSE ref,
     all_codes |-> IF ref # <<>> THEN {ref} ELSE {},
     amount    |-> amt,
     tx_type   |-> tx_type,
     date      |-> <<>>,
     desc      |-> FirstN(joined, 80),
     sender    |-> AutoSender(joined),
     is_locked |-> LockCell(row) # 0,
     lock_text |-> LockText(row, LockCell(row))]

\* max(float(a) for a in amounts), None without amounts
LargestAmount(joined_n, amounts) ==
    IF amounts = {} THEN None
    ELSE Greatest({DigitsValue(RunText(joined_n, r)) : r \in amounts})

\* a fallback row with its references (\b\d{10,24}\b) and amounts
AutoFound(row, row_num, joined, joined_n, refs, amounts) ==
    IF refs = {} /\ amounts = {} THEN [skip |-> TRUE]
    ELSE AutoTxn(row, row_num, joined,
                 IF refs = {} THEN <<>>
                 ELSE RunText(joined_n, LongestFirst(joined_n, refs)),
                 LargestAmount(joined_n, amounts),
                 IF ContainsAny(joined_n, AutoDeposit) THEN "deposit"
                 ELSE IF ContainsAny(joined_n, AutoWithdrawal) THEN "withdrawal"
                 ELSE "unknown")

\* the amounts of a fallback row: \b\d{6,}\b above 10000
AutoAmounts(joined_n) ==
    {r \in DigitRuns(joined_n) :
        /\ RunLen(r) >= 6
        /\ WordBoundary(joined_n, r[1] - 1)
        /\ WordBoundary(joined_n, r[2])
        /\ Over10000(RunText(joined_n, r))}

\* a fallback row scanned in its joined text
AutoScan(row, row_num, joined, joined_n) ==
    AutoFound(row, row_num, joined, joined_n,
              BoundedDigitRuns(joined_n, 10, 24), AutoAmounts(joined_n))

\* one row of a grid without a header; [skip |-> TRUE] for a discarded row
AutoRow(df_raw, ri) ==
    AutoScan(df_raw[ri + 1], ri + 1, JoinCells(df_raw[ri + 1]),
             FA_DIGITS(JoinCells(df_raw[ri + 1])))

\* the rows first..last (0-based) through Row, the discarded ones left out
RECURSIVE CollectRows(_, _, _)
CollectRows(Row(_), first, last) ==
    LET Kept(t) == IF t.skip THEN <<>> ELSE <<t>>
    IN  IF first > last THEN <<>>
        ELSE Kept(Row(first)) \o CollectRows(Row, first + 1, last)

\* the transactions of the grid whose header is row header_idx (0-based),
\* of every row when there is no header
RowsBelow(df_raw, header_idx) ==
    IF header_idx >= 0
    THEN LET col_map == RowColMap(df_raw[header_idx + 1])
         IN  CollectRows(LAMBDA ri : HeaderRow(df_raw, col_map, ri),
                         header_idx + 1, Len(df_raw) - 1)
    ELSE CollectRows(LAMBDA ri : AutoRow(df_raw, ri), 0, Len(df_raw) - 1)

\* parse_excel on the grid pandas read (rows of cells, every cell a string)
parse_excel(df_raw) == RowsBelow(df_raw, HeaderIdx(df_raw))

(***************************************************************************)
(* Matching engine                                                         *)
(***************************************************************************)
\* BANK_KEYWORDS: the plain words
BankWords ==
    {<<"v","a","r","y","z">>,
     <<"b","r","d","a","sh","t">>,
     <<"kh","r","v","j">>,
     <<"b","a","n","k">>,
     <<"hh","v","a","l","h">>,
     <<"aa","b","sh","d","h">>,
     <<"a","n","t","q","a","l">>,
     <<"m","t","f","r","q","h">>,
     <<"p","a","y","a">>,
     <<"s","a","t","n","a">>,
     <<"sh","b","a">>,
     <<"a","y","n","t","r","n","t">>,
     <<"d","s","t","v","r">>,
     <<"d","r","y","a","f","t">>,
     <<"p","r","d","a","kh","t">>,
     <<"n","q","d">>,
     <<"f","y","sh">>,
     <<"r","m","z","d","a","r">>,
     <<"ch","k">>,
     <<"ss","a","d","r","a","t">>}
\* BANK_KEYWORDS: the letters of "<letter>\s+\d{10}"
BankLetters == {"ch", "p", "sh", "s", "d", "y_ar"}
\* BANK_KEYWORDS: the bank names of "\[\s*(?:...)"
BankNames ==
    {<<"ss","a","d","r","a","t">>,
     <<"m","l","y_ar">>,
     <<"m","l","t">>,
     <<"t","j","a","r","t">>,
     <<"s","a","m","a","n">>,
     <<"p","a","r","s","y_ar","a","n">>,
     <<"p","a","s","a","r","g","a","d">>,
     <<"r","s","a","l","t">>,
     <<"q","r","zz">>}
\* BANK_KEYWORDS: the network tokens of "\bGPPC\b|...", lower-cased (re.IGNORECASE)
BankLatin ==
    {<<"_g","_p","_p","_c">>,
     <<"_d","_r","_p","_a">>,
     <<"_g","_p","_a","_c">>,
     <<"_i","_m","_p","_t">>,
     <<"_s","_p","_a","_c">>}

IranHead == <<"a","y_ar">>
IranTail == <<"r","a","n">>
IranZamin == <<"r","a","n"," ","z","m","y","n">>

\* "alef, Arabic yeh, any character, re-alef-nun" followed by rest at position i: two letters, any character, the rest
IranAt(s, i, rest) == OccursAt(IranHead, s, i) /\ OccursAt(rest, s, i + 3)

\* BANK_KEYWORDS.search(desc)
BANK_KEYWORDS(desc) ==
    LET low == Lower(desc)
    IN  \/ ContainsAny(desc, BankWords)
        \/ \E i \in 1..Len(desc) : IranAt(desc, i, IranZamin)
        \/ \E i \in 1..Len(desc) :
              /\ desc[i] \in BankLetters
              /\ i < Len(desc)
              /\ IsSpace(desc[i + 1])
              /\ LET j == RunEnd(IsSpace, desc, i + 1)
                 IN  RunEnd(IsDigit, desc, j + 1) - j >= 10
        \/ \E i \in 1..Len(desc) :
              /\ desc[i] = "["
              /\ LET j == RunEnd(IsSpace, desc, i + 1) + 1
                 IN  \/ \E n \in BankNames : OccursAt(n, desc, j)
                     \/ IranAt(desc, j, IranTail)
        \/ \E w \in BankLatin : \E i \in 1..Len(desc) :
              /\ OccursAt(w, low, i)
              /\ WordBoundary(desc, i - 1)
              /\ WordBoundary(desc, i + Len(w) - 1)

\* re.search(r"\b\d{4,}\b", desc)
HasIsolatedNumber(desc) ==
    \E r \in DigitRuns(desc) :
        RunLen(r) >= 4 /\ WordBoundary(desc, r[1] - 1) /\ WordBoundary(desc, r[2])

\* the pre-filter of the ledger rows
KeepRow(r, credit_only) ==
    /\ (~credit_only \/ r.credit > 0)
    /\ (BANK_KEYWORDS(r.desc) \/ HasIsolatedNumber(r.desc))

\* the index construction without the direction filter
Unfiltered(tx, tx_type_filter) == TRUE

\* the direction filter without the exemption of the unknown direction
KnownOnly(tx, tx_type_filter) == tx_type_filter = "all" \/ tx.tx_type = tx_type_filter

\* the direction filter of the index construction
Indexed(tx, tx_type_filter) ==
    ~(tx_type_filter # "all" /\ tx.tx_type # "unknown" /\ tx.tx_type # tx_type_filter)

\* the codes a bank transaction is indexed under (all_codes and last4)
TxCodes(tx) ==
    {c \in tx.all_codes \cup {tx.last4} : c # <<>>}

\* how often the construction appends tx to by_last4[k]
KeyCount(tx, k) ==
    Cardinality({c \in TxCodes(tx) : c = k})
    + Cardinality({c \in TxCodes(tx) : Len(c) > 4 /\ LastN(c, 4) = k})

RECURSIVE Repeat(_, _)
Repeat(x, n) == IF n = 0 THEN <<>> ELSE <<x>> \o Repeat(x, n - 1)

\* by_last4.get(k, []) over the indexed transactions
RECURSIVE by_last4(_, _)
by_last4(txns, k) ==
    IF txns = <<>> THEN <<>>
    ELSE Repeat(Head(txns), KeyCount(Head(txns), k)) \o by_last4(Tail(txns), k)

\* the (key, tx) pairs appended to by_sender, in order
RECURSIVE SenderEntries(_)
SenderEntries(txns) ==
    LET Keyed(tx, ks) == [i \in 1..Len(ks) |-> <<ks[i], tx>>]
    IN  IF txns = <<>> THEN <<>>
        ELSE Keyed(Head(txns),
                   Filter(LAMBDA k : Len(k) >= 3,
                          <<nrm(Head(txns).sender), nrm(Head(txns).desc)>>))
             \o SenderEntries(Tail(txns))

\* by_sender.get(k, [])
by_sender(entries, k) ==
    LET hit == Filter(LAMBDA e : e[1] = k, entries)
    IN  [i \in 1..Len(hit) |-> hit[i][2]]

\* the keys of by_sender in insertion order
RECURSIVE SenderKeys(_, _)
SenderKeys(entries, seen) ==
    IF entries = <<>> THEN <<>>
    ELSE IF Head(entries)[1] \in seen THEN SenderKeys(Tail(entries), seen)
    ELSE <<Head(entries)[1]>> \o SenderKeys(Tail(entries), seen \cup {Head(entries)[1]})

Abs(x) == IF x < 0 THEN 0 - x ELSE x

\* the tolerance test with <= in place of <: inv * abs(c - amount) <= amount
WithinOrAt(c, amount, inv) ==
    amount > 0 /\ Abs(c - amount) <= amount \div inv

\* abs(c - amount) < amount * tolerance for tolerance = 1 / inv, that is
\* inv * abs(c - amount) < amount, in a form that stays within 32 bits
Within(c, amount, inv) ==
    amount > 0 /\ Abs(c - amount) <= (amount - 1) \div inv

\* c.get("amount"), as a truth value
HasAmount(c) == c.amount # None /\ c.amount # 0

\* amount * 0.10 and amount * 0.05
CodeTolerance == 10
NameTolerance == 20

\* next((c for c in cands if c.get("is_locked")), None), else cands[0]
LockedFirst(cands) ==
    LET locked == Filter(LAMBDA c : c.is_locked, cands)
    IN  IF locked # <<>> THEN locked[1] ELSE cands[1]

NoMatch == [found |-> FALSE, status |-> "not_found", method |-> <<>>]

MethodCode == <<"k","d",":"," ">>
MethodCodeHead == <<"k","d"," ">>
MethodCodeAmountDup == <<" ","+"," ","m","b","l","gh"," ","(","t","k","r","a","r","y",")">>
MethodCodeMulti == <<" ","(","ch","n","d","g","a","n","h",")">>
MethodNameAmount ==
    <<"n","a","m"," ","m","sh","a","b","h"," ","+"," ","m","b","l","gh"," ","y","k","s","a","n">>
MethodPartialName ==
    <<"n","a","m"," ","j","z","yh","y"," ","m","sh","a","b","h"," ","+"," ",
      "m","b","l","gh"," ","y","k","s","a","n">>
MethodDuplicate ==
    <<"t","k","r","a","r","y"," ","(","q","b","l","a","tanvin"," ",
      "t","tt","b","y","q"," ","sh","d","h",")">>

\* the choice among the candidates without the narrowing by amount
PickUnnarrowed(cands, scode, amount) ==
    LET locked == Filter(LAMBDA c : c.is_locked, cands)
    IN  IF Len(cands) = 1
        THEN [found |-> TRUE, tx |-> cands[1], method |-> MethodCode \o scode,
              status |-> "exact"]
        ELSE IF locked # <<>>
        THEN [found |-> TRUE, tx |-> locked[1],
              method |-> MethodCodeHead \o scode \o MethodCodeAmountDup,
              status |-> "exact"]
        ELSE [found |-> TRUE, tx |-> cands[1],
              method |-> MethodCodeHead \o scode \o MethodCodeMulti,
              status |-> "exact"]

\* the choice among the candidates of one search code
PickByCode(cands, scode, amount) ==
    LET First(working_cands, locked) ==
            IF locked # <<>>
            THEN [found |-> TRUE, tx |-> locked[1],
                  method |-> MethodCodeHead \o scode \o MethodCodeAmountDup,
                  status |-> "exact"]
            ELSE [found |-> TRUE, tx |-> working_cands[1],
                  method |-> MethodCodeHead \o scode \o MethodCodeMulti,
                  status |-> "exact"]
        Working(working_cands) ==
            First(working_cands, Filter(LAMBDA c : c.is_locked, working_cands))
        Narrowed(amount_cands) ==
            Working(IF amount_cands # <<>> THEN amount_cands ELSE cands)
    IN  IF Len(cands) = 1
        THEN [found |-> TRUE, tx |-> cands[1], method |-> MethodCode \o scode,
              status |-> "exact"]
        ELSE Narrowed(Filter(LAMBDA c : HasAmount(c) /\ amount # 0
                                        /\ Within(c.amount, amount, CodeTolerance),
                             cands))

\* search_codes with the last four digits tried before the full code
SuffixFirst(code) == IF Len(code) > 4 THEN <<LastN(code, 4), code>> ELSE <<code>>

\* search_codes without the fallback to the last four digits
FullOnly(code) == <<code>>

\* search_codes of a code
SearchCodes(code) == IF Len(code) > 4 THEN <<code, LastN(code, 4)>> ELSE <<code>>

\* the inner loop over search_codes
RECURSIVE TrySearchCodes(_, _, _)
TrySearchCodes(scodes, txns, amount) ==
    LET Try(cands) ==
            IF cands # <<>> THEN PickByCode(cands, Head(scodes), amount)
            ELSE TrySearchCodes(Tail(scodes), txns, amount)
    IN  IF scodes = <<>> THEN NoMatch ELSE Try(by_last4(txns, Head(scodes)))

\* tier 1: the loop over the row's codes
RECURSIVE Tier1(_, _, _)
Tier1(codes, txns, amount) ==
    LET Or(m) == IF m.found THEN m ELSE Tier1(Tail(codes), txns, amount)
    IN  IF codes = <<>> THEN NoMatch
        ELSE IF Len(Head(codes)) < 4 THEN Tier1(Tail(codes), txns, amount)
        ELSE Or(TrySearchCodes(SearchCodes(Head(codes)), txns, amount))

\* the candidates of one sender bucket within the amount tolerance
AmountCands(txs, amount) ==
    Filter(LAMBDA c : HasAmount(c) /\ Within(c.amount, amount, NameTolerance), txs)

\* tier 2, partial name match: the loop over by_sender.items()
RECURSIVE PartialName(_, _, _, _)
PartialName(keys, entries, skey, amount) ==
    LET Try(k, amount_cands) ==
            IF Len(k) >= 3 /\ (Contains(skey, k) \/ Contains(k, skey))
               /\ amount_cands # <<>>
            THEN [found |-> TRUE, tx |-> LockedFirst(amount_cands),
                  method |-> MethodPartialName, status |-> "review"]
            ELSE PartialName(Tail(keys), entries, skey, amount)
    IN  IF keys = <<>> THEN NoMatch
        ELSE Try(Head(keys), AmountCands(by_sender(entries, Head(keys)), amount))

\* tier 2 over the sender index: the exact key, then the partial names
Tier2Of(skey, entries, amount_cands, amount) ==
    IF amount_cands # <<>>
    THEN [found |-> TRUE, tx |-> LockedFirst(amount_cands),
          method |-> MethodNameAmount, status |-> "review"]
    ELSE IF Len(skey) >= 3
    THEN PartialName(SenderKeys(entries, {}), entries, skey, amount)
    ELSE NoMatch

\* tier 2: sender name and amount
Tier2(sender, txns, amount) ==
    Tier2Of(nrm(sender), SenderEntries(txns),
            AmountCands(by_sender(SenderEntries(txns), nrm(sender)), amount), amount)

\* amount = r.get("credit") or r.get("debit") or 0
Amount(r) ==
    IF r.credit \notin {0, None} THEN r.credit
    ELSE IF r.debit \notin {0, None} THEN r.debit
    ELSE 0

\* the tiers followed by a third one on the amount alone: the first
\* transaction of the same amount
OrAmount(m1, r, txns, opts) ==
    LET by_amount == Filter(LAMBDA tx : HasAmount(tx) /\ tx.amount = Amount(r), txns)
        Tier3(m2) ==
            IF m2.found \/ ~opts.use_amount \/ by_amount = <<>> THEN m2
            ELSE [found |-> TRUE, tx |-> by_amount[1], method |-> <<>>,
                  status |-> "review"]
    IN  IF m1.found THEN m1
        ELSE Tier3(IF opts.use_name /\ r.sender # <<>> /\ Amount(r) # 0 /\ r.codes # <<>>
                   THEN Tier2(r.sender, txns, Amount(r))
                   ELSE NoMatch)

\* tier 2 for a row without codes too
OrTier2AnyRow(m1, r, txns, opts) ==
    IF m1.found THEN m1
    ELSE IF opts.use_name /\ r.sender # <<>> /\ Amount(r) # 0
    THEN Tier2(r.sender, txns, Amount(r))
    ELSE NoMatch

\* tier 2 tried only with use_amount set
OrTier2IfAmount(m1, r, txns, opts) ==
    IF m1.found THEN m1
    ELSE IF opts.use_amount /\ opts.use_name /\ r.sender # <<>> /\ Amount(r) # 0
            /\ r.codes # <<>>
    THEN Tier2(r.sender, txns, Amount(r))
    ELSE NoMatch

\* tier 2 when tier 1 found nothing, only for a row with a sender, an amount
\* and codes
OrTier2(m1, r, txns, opts) ==
    IF m1.found THEN m1
    ELSE IF opts.use_name /\ r.sender # <<>> /\ Amount(r) # 0 /\ r.codes # <<>>
    THEN Tier2(r.sender, txns, Amount(r))
    ELSE NoMatch

\* the tiers in order with tier 1 run whatever use_tracking says
TrackingAlways(r, txns, opts) ==
    OrTier2(Tier1(r.codes, txns, Amount(r)), r, txns, opts)

\* the tiers in order
Resolve(r, txns, opts) ==
    OrTier2(IF opts.use_tracking THEN Tier1(r.codes, txns, Amount(r)) ELSE NoMatch,
            r, txns, opts)

\* Override without the test of is_locked: the tier's status stands
ForgetLock(m) == m

\* the override for a locked transaction
Override(m) ==
    IF m.found /\ m.tx.is_locked
    THEN [m EXCEPT !.status = "duplicate", !.method = MethodDuplicate]
    ELSE m

\* the bank_row of a result without a match: the code's empty string, as a
\* number no sheet row has
NoRow == 0

\* the result appended for ledger row r matched as m
Entry(r, idx, m) ==
    [idx          |-> idx,
     date         |-> r.date,
     doc_num      |-> r.doc_num,
     doc_type     |-> r.doc_type,
     amount       |-> Amount(r),
     codes        |-> Join(<<",", " ">>, r.codes),
     sender       |-> r.sender,
     desc         |-> r.desc,
     found        |-> m.found,
     status       |-> m.status,
     match_method |-> m.method,
     bank_ref     |-> IF m.found THEN m.tx.ref ELSE <<>>,
     bank_date    |-> IF m.found THEN m.tx.date ELSE <<>>,
     bank_row     |-> IF m.found THEN m.tx.row_num ELSE NoRow]

\* the result appended for ledger row r
Result(r, idx, txns, opts) == Entry(r, idx, Override(Resolve(r, txns, opts)))

\* the results when a matched transaction is taken out of the indexes: each
\* row is matched against the transactions no earlier row was matched to
RECURSIVE ConsumingFrom(_, _, _, _)
ConsumingFrom(rows, idx, txns, opts) ==
    LET Rest(m) ==
            ConsumingFrom(Tail(rows), idx + 1,
                          IF m.found THEN Filter(LAMBDA tx : tx # m.tx, txns) ELSE txns,
                          opts)
        Step(m) == <<Entry(Head(rows), idx, m)>> \o Rest(m)
    IN  IF rows = <<>> THEN <<>>
        ELSE Step(Override(Resolve(Head(rows), txns, opts)))

Consuming(rows, txns, opts) == ConsumingFrom(rows, 1, txns, opts)

\* the results of the kept ledger rows against the indexed transactions
Results(rows, txns, opts) == [i \in 1..Len(rows) |-> Result(rows[i], i, txns, opts)]

\* rows: the ledger rows left by the pre-filter
KeptOf(pdf_rows, opts) == Filter(LAMBDA r : KeepRow(r, opts.credit_only), pdf_rows)

\* the bank transactions the indexes are built from
IndexedOf(bank_txns, opts) ==
    Filter(LAMBDA tx : Indexed(tx, opts.tx_type_filter), bank_txns)

\* int() of an infinite float raises OverflowError: of the amount of an
\* indexed transaction when by_amount is built, of the amount of a kept row
\* when its result is appended
Raises(rows, txns) ==
    \/ \E n \in DOMAIN txns : HasAmount(txns[n]) /\ Abs(txns[n].amount) = Infinity
    \/ \E i \in DOMAIN rows : Abs(Amount(rows[i])) = Infinity

\* match_receipts
match_receipts(pdf_rows, bank_txns, opts) ==
    Results(KeptOf(pdf_rows, opts), IndexedOf(bank_txns, opts), opts)

(***************************************************************************)
(* Ledger description parser (parse_desc)                                  *)
(***************************************************************************)
\* the first position at or after i that holds no space
SkipSpaces(s, i) == RunEnd(IsSpace, s, i) + 1

\* the last position at or before i that holds no space
SkipSpacesBack(s, i) == RunStart(IsSpace, s, i) - 1

\* \d{4,8}\b at the start d of a digit run: the whole run, when it has 4 to
\* 8 digits and no word character follows it
CodeRun(s, d) ==
    LET e == RunEnd(IsDigit, s, d)
    IN  IF e - d + 1 >= 4 /\ e - d + 1 <= 8 /\ (e = Len(s) \/ ~IsWordChar(s[e + 1]))
        THEN {SubSeq(s, d, e)} ELSE {}

Slashes(s) == {k \in 1..Len(s) : s[k] = "/"}

\* Pattern 1: [\u0600-\u06FF]+\s*/\s*(\d{4,8})\b
NameSlashCode(s) ==
    UNION {CodeRun(s, SkipSpaces(s, k + 1)) :
              k \in {x \in Slashes(s) :
                        LET b == SkipSpacesBack(s, x - 1)
                        IN  b >= 1 /\ IsFa(s[b])}}

\* Pattern 1b: \b(\d{4})\s*/\s*[\u0600-\u06FF]+
CodeSlashName(s) ==
    {SubSeq(s, b - 3, b) :
        b \in {SkipSpacesBack(s, k - 1) :
                  k \in {x \in Slashes(s) :
                            LET a == SkipSpaces(s, x + 1)
                                e == SkipSpacesBack(s, x - 1)
                            IN  /\ a <= Len(s) /\ IsFa(s[a])
                                /\ e >= 4 /\ IsDigit(s[e])
                                /\ RunStart(IsDigit, s, e) = e - 3
                                /\ WordBoundary(s, e - 4)}}}

\* Pattern 2: (?<!\d)(\d{4})(?!\d)\s*\[
CodeBeforeBracket(s) ==
    {RunText(s, r) :
        r \in {x \in DigitRuns(s) :
                  LET a == SkipSpaces(s, x[2] + 1)
                  IN  RunLen(x) = 4 /\ a <= Len(s) /\ s[a] = "["}}

\* the first "]" at or after i, len(s) + 1 when there is none
NextClose(s, i) == RunEnd(LAMBDA c : c # "]", s, i) + 1

\* the matches of \[([^\]]+)\] from position i on, as (open, close) pairs
RECURSIVE Bracketed(_, _)
Bracketed(s, i) ==
    IF i > Len(s) THEN {}
    ELSE IF s[i] = "[" /\ NextClose(s, i + 1) > i + 1 /\ NextClose(s, i + 1) <= Len(s)
         THEN {<<i, NextClose(s, i + 1)>>} \cup Bracketed(s, NextClose(s, i + 1) + 1)
         ELSE Bracketed(s, i + 1)

\* Pattern 3: every number of 4 or more digits inside [...]
CodesInBrackets(s) ==
    UNION {LET inner == SubSeq(s, m[1] + 1, m[2] - 1)
           IN  {RunText(inner, r) : r \in {x \in DigitRuns(inner) : RunLen(x) >= 4}} :
           m \in Bracketed(s, 1)}

\* Pattern 4: \[([^\]]{8,})\]\s*(\d{4,8})\b
CodeAfterBracket(s) ==
    UNION {CodeRun(s, SkipSpaces(s, j + 1)) :
              j \in {x \in 1..Len(s) :
                        /\ s[x] = "]"
                        /\ \E i \in 1..(x - 9) :
                              s[i] = "[" /\ \A k \in (i + 1)..(x - 1) : s[k] # "]"}}

\* \|\s*(\d{4,8})\s* from the bar at k: the digit run and the position after
\* the spaces that follow it
BarCode(s, k) ==
    LET d == SkipSpaces(s, k + 1)
        e == RunEnd(IsDigit, s, d)
    IN  [ok |-> s[k] = "|" /\ e - d + 1 >= 4 /\ e - d + 1 <= 8,
         code |-> SubSeq(s, d, e),
         next |-> SkipSpaces(s, e + 1)]

\* Pattern 5: \|\s*(\d{4,8})\s*(?=\|)
CodeBetweenBars(s) ==
    {BarCode(s, k).code :
        k \in {x \in 1..Len(s) :
                  LET b == BarCode(s, x)
                  IN  b.ok /\ b.next <= Len(s) /\ s[b.next] = "|"}}

\* Pattern 6: \|\s*(\d{4,8})\s*$
CodeAtEnd(s) ==
    {BarCode(s, k).code :
        k \in {x \in 1..Len(s) : BarCode(s, x).ok /\ BarCode(s, x).next = Len(s) + 1}}

\* a digit run of 4 to 8 digits starting at d
IsChunk(s, d) ==
    LET e == RunEnd(IsDigit, s, d) IN e - d + 1 >= 4 /\ e - d + 1 <= 8

\* (?:\s*[/,-]\s*\d{4,8})+\b after the chunk ending at e, greedy: the end of
\* the last chunk of the longest chain that ends on a word boundary; 0 when
\* no chain longer than the chunk itself does
RECURSIVE ChainEnd(_, _)
ChainEnd(s, e) ==
    LET p == SkipSpaces(s, e + 1)
        d == SkipSpaces(s, p + 1)
        linked == /\ p <= Len(s) /\ s[p] \in {"/", ",", "-"}
                  /\ d <= Len(s) /\ IsDigit(s[d]) /\ IsChunk(s, d)
        e2 == RunEnd(IsDigit, s, d)
        further == ChainEnd(s, e2)
    IN  IF ~linked THEN 0
        ELSE IF further # 0 THEN further
        ELSE IF e2 = Len(s) \/ ~IsWordChar(s[e2 + 1]) THEN e2
        ELSE 0

\* the matches of \b\d{4,8}(?:\s*[/,-]\s*\d{4,8})+\b from position i on
RECURSIVE CodeChains(_, _)
CodeChains(s, i) ==
    LET Next(e) ==
            IF e # 0 THEN {<<i, e>>} \cup CodeChains(s, e + 1)
            ELSE CodeChains(s, i + 1)
    IN  IF i > Len(s) THEN {}
        ELSE Next(IF /\ IsDigit(s[i])
                     /\ (i = 1 \/ ~IsWordChar(s[i - 1]))
                     /\ IsChunk(s, i)
                  THEN ChainEnd(s, RunEnd(IsDigit, s, i)) ELSE 0)

\* re.search(r"\b\d{4}/\d{1,2}/\d{1,2}\b", t)
LooksLikeDate(t) ==
    \E i \in 1..Len(t) : \E a \in 1..2 : \E b \in 1..2 :
        /\ i + 3 + 1 + a + 1 + b <= Len(t)
        /\ WordBoundary(t, i - 1)
        /\ \A k \in i..(i + 3) : IsDigit(t[k])
        /\ t[i + 4] = "/"
        /\ \A k \in (i + 5)..(i + 4 + a) : IsDigit(t[k])
        /\ t[i + 5 + a] = "/"
        /\ \A k \in (i + 6 + a)..(i + 5 + a + b) : IsDigit(t[k])
        /\ WordBoundary(t, i + 5 + a + b)

\* re.findall(r"\d{4,8}", t): the digit runs cut into pieces of 8, a last
\* piece shorter than 4 dropped
RECURSIVE Pieces(_)
Pieces(run) ==
    IF Len(run) < 4 THEN {}
    ELSE IF Len(run) <= 8 THEN {run}
    ELSE {SubSeq(run, 1, 8)} \cup Pieces(SubSeq(run, 9, Len(run)))

\* Pattern 7: numbers chained by slashes, commas or dashes, dates excluded
CodesInChains(s) ==
    UNION {LET t == SubSeq(s, m[1], m[2])
           IN  IF LooksLikeDate(t) THEN {}
               ELSE UNION {Pieces(RunText(t, r)) : r \in DigitRuns(t)} :
           m \in CodeChains(s, 1)}

\* the character class [\u0600-\u06FF\s]
IsFaSp(c) == IsFa(c) \/ IsSpace(c)

\* four digits at i..i+3
FourDigits(s, i) == i >= 1 /\ i + 3 <= Len(s) /\ \A k \in i..(i + 3) : IsDigit(s[k])

\* \s*([\u0600-\u06FF\s]+) from position i, greedy with backtracking: the
\* group starts at the first non-space when that is a Persian character, and
\* is the last space otherwise; <<0, 0>> when there is no match
SpacesThenName(s, i) ==
    LET a == SkipSpaces(s, i)
    IN  IF a <= Len(s) /\ IsFa(s[a]) THEN <<a, RunEnd(IsFaSp, s, a)>>
        ELSE IF a > i THEN <<a - 1, a - 1>>
        ELSE <<0, 0>>

\* re.search(r"([\u0600-\u06FF\s]+)\s*/\s*\d{4}", desc)
SenderBeforeSlash(desc) ==
    LET From(starts) ==
            IF starts = {} THEN [found |-> FALSE, sender |-> <<>>]
            ELSE [found |-> TRUE,
                  sender |-> Strip(SubSeq(desc, Least(starts),
                                          RunEnd(IsFaSp, desc, Least(starts))))]
    IN  From({i \in RunStarts(IsFaSp, desc) :
                 LET e == RunEnd(IsFaSp, desc, i)
                 IN  /\ e + 1 <= Len(desc) /\ desc[e + 1] = "/"
                     /\ FourDigits(desc, SkipSpaces(desc, e + 2))})

\* re.search(r"\d{4}\s*/\s*([\u0600-\u06FF\s]+)", desc)
SenderAfterSlash(desc) ==
    LET Group(g) == [found |-> TRUE, sender |-> Strip(SubSeq(desc, g[1], g[2]))]
        From(ks) ==
            IF ks = {} THEN [found |-> FALSE, sender |-> <<>>]
            ELSE Group(SpacesThenName(desc, Least(ks) + 1))
    IN  From({k \in Slashes(desc) :
                 /\ FourDigits(desc, SkipSpacesBack(desc, k - 1) - 3)
                 /\ SpacesThenName(desc, k + 1) # <<0, 0>>})

\* re.search(r"\]\s*([\u0600-\u06FF\s]+)", desc)
SenderAfterBracket(desc) ==
    LET Group(g) == [found |-> TRUE, sender |-> Strip(SubSeq(desc, g[1], g[2]))]
        From(js) ==
            IF js = {} THEN [found |-> FALSE, sender |-> <<>>]
            ELSE Group(SpacesThenName(desc, Least(js) + 1))
    IN  From({j \in 1..Len(desc) :
                 desc[j] = "]" /\ SpacesThenName(desc, j + 1) # <<0, 0>>})

Havale == <<"hh","v","a","l","h">>
BehColon == <<"b","h",":">>

\* the position after a match of the literal text "havale \s* be:" that
\* starts at i, 0 when there is none
AfterHavale(s, i) ==
    LET b == SkipSpaces(s, i + Len(Havale))
    IN  IF OccursAt(Havale, s, i) /\ OccursAt(BehColon, s, b) THEN b + Len(BehColon)
        ELSE 0

\* \s*\d*\s*([\u0600-\u06FF\s]+) from position p, greedy with backtracking:
\* the name after the spaces and digits; failing that the last space before
\* it, the last Persian digit of the number, or the last space before the
\* number; <<0, 0>> when there is no match
NameAfterNumber(s, p) ==
    LET a == SkipSpaces(s, p)
        b == RunEnd(IsDigit, s, a) + 1
        c == SkipSpaces(s, b)
        fa == {k \in a..(b - 1) : IsFa(s[k])}
    IN  IF c <= Len(s) /\ IsFa(s[c]) THEN <<c, RunEnd(IsFaSp, s, c)>>
        ELSE IF c > b THEN <<c - 1, c - 1>>
        ELSE IF fa # {} THEN <<Greatest(fa), Greatest(fa)>>
        ELSE IF a > p THEN <<a - 1, a - 1>>
        ELSE <<0, 0>>

\* re.sub(r"[^\u0600-\u06FF\s]+$", "", s)
RECURSIVE DropTail(_)
DropTail(s) ==
    IF s # <<>> /\ ~IsFaSp(s[Len(s)]) THEN DropTail(SubSeq(s, 1, Len(s) - 1)) ELSE s

\* the matches of \(havale\s*be: in s, by their start
HavaleParens(s) == {q \in 1..Len(s) : s[q] = "(" /\ AfterHavale(s, q + 1) # 0}

\* [^\|]+?\s*\( from the bar at k, lazy: the first "(havale be:" the group
\* can reach before the next bar, 0 when there is none
HavaleReach(desc, k) ==
    LET g == SkipSpaces(desc, k + 1)
        bar == RunEnd(LAMBDA ch : ch # "|", desc, k + 1) + 1
        later == {q \in HavaleParens(desc) : q > g /\ q < bar}
    IN  IF g < bar /\ later # {} THEN Least(later)
        ELSE IF g > k + 1 /\ g \in HavaleParens(desc) THEN g
        ELSE 0

\* the group of the match that starts at the first of the bars ks
BeforeHavaleFrom(desc, ks) ==
    IF ks = {} THEN [found |-> FALSE, sender |-> <<>>]
    ELSE [found |-> TRUE,
          sender |-> Strip(SubSeq(desc, Least(ks) + 1,
                                  HavaleReach(desc, Least(ks)) - 1))]

\* re.search(r"\|\s*([^\|]+?)\s*\(havale\s*be:", desc): the group of the
\* leftmost match, stripped
SenderBeforeHavale(desc) ==
    BeforeHavaleFrom(desc, {k \in 1..Len(desc) :
                               desc[k] = "|" /\ HavaleReach(desc, k) # 0})

\* sender = f"{sender1} {sender2}" if sender1 else sender2
JoinSenders(before, sender1, sender2) ==
    IF before.found /\ sender1 # <<>> THEN sender1 \o <<" ">> \o sender2
    ELSE sender2

\* the sender from the group g of m_havale and the match m_before
HavaleSender(desc, g, before) ==
    JoinSenders(before,
                Strip(Remove(LAMBDA ch : ~IsFaSp(ch), before.sender)),
                Strip(DropTail(Strip(SubSeq(desc, g[1], g[2])))))

\* the sender of the leftmost match among the starts is
HavaleFrom(desc, is) ==
    IF is = {} THEN <<>>
    ELSE HavaleSender(desc, NameAfterNumber(desc, AfterHavale(desc, Least(is))),
                      SenderBeforeHavale(desc))

\* the sender of the "havale be:" fallback
SenderHavale(desc) ==
    HavaleFrom(desc, {i \in 1..Len(desc) :
                         AfterHavale(desc, i) # 0
                         /\ NameAfterNumber(desc, AfterHavale(desc, i)) # <<0, 0>>})

\* the codes of the first pattern that finds any, the later patterns not tried
FirstRule(desc_n) ==
    LET Or(found, later) == IF found # {} THEN found ELSE later
    IN  Or(NameSlashCode(desc_n) \cup CodeSlashName(desc_n),
           Or(CodeBeforeBracket(desc_n),
              Or(CodesInBrackets(desc_n),
                 Or(CodeAfterBracket(desc_n),
                    Or(CodeBetweenBars(desc_n),
                       Or(CodeAtEnd(desc_n), CodesInChains(desc_n)))))))

\* the codes of the eight patterns
DescCodes(desc_n) ==
    NameSlashCode(desc_n) \cup CodeSlashName(desc_n)
    \cup CodeBeforeBracket(desc_n) \cup CodesInBrackets(desc_n)
    \cup CodeAfterBracket(desc_n) \cup CodeBetweenBars(desc_n)
    \cup CodeAtEnd(desc_n) \cup CodesInChains(desc_n)

\* the sender: the first of the searches m, m2, m3 that matches, else the
\* "havale be:" fallback
DescSender(desc, m, m2, m3) ==
    IF m.found THEN m.sender
    ELSE IF m2.found THEN m2.sender
    ELSE IF m3.found THEN m3.sender
    ELSE SenderHavale(desc)

\* parse_desc: the tracking codes (sorted) and the sender of a description;
\* holder is ACCOUNT_HOLDER_CODES at the time of the call
parse_desc(desc, holder) ==
    IF desc = <<>> THEN [codes |-> <<>>, sender |-> <<>>]
    ELSE [codes |-> Sorted(DescCodes(FA_DIGITS(desc)) \ holder),
          sender |-> DescSender(desc, SenderBeforeSlash(desc), SenderAfterSlash(desc),
                                SenderAfterBracket(desc))]

(***************************************************************************)
(* Ledger parsers (parse_pdf, parse_html)                                  *)
(*                                                                         *)
(* A PDF is a sequence of pages, a page the sequence of its words          *)
(* [x0, y0, y1, text] with whole coordinates.  An HTML document is a       *)
(* sequence of tables, a table a sequence of rows, a row a sequence of     *)
(* cells [tag, text].                                                      *)
(***************************************************************************)
DocTypeCredit == <<"b","s","t","a","n","k","a","r">>
DocTypeDebit == <<"b","d","h","k","a","r">>

\* the frequency pass without its second pass over the rows: the owner codes
\* join the holder set and stay in the rows
CountOnly(rows_out, holder) ==
    LET auto_owner_codes ==
            {c \in UNION {Range(rows_out[i].codes) : i \in DOMAIN rows_out} :
                10 * Cardinality({i \in DOMAIN rows_out : c \in Range(rows_out[i].codes)})
                    > Len(rows_out)}
    IN  [rows |-> rows_out, holder |-> holder \cup auto_owner_codes]

\* the frequency pass with the threshold of its comment, 30% of the rows
OverThirty(rows_out, holder) ==
    LET code_freq(c) ==
            Cardinality({i \in DOMAIN rows_out : c \in Range(rows_out[i].codes)})
        Without(after) ==
            [rows |-> [i \in DOMAIN rows_out |->
                          [rows_out[i] EXCEPT
                              !.codes = Filter(LAMBDA c : c \notin after, @)]],
             holder |-> after]
        Pass(auto_owner_codes) ==
            IF rows_out = <<>> \/ auto_owner_codes = {}
            THEN [rows |-> rows_out, holder |-> holder]
            ELSE Without(holder \cup auto_owner_codes)
    IN  Pass({c \in UNION {Range(rows_out[i].codes) : i \in DOMAIN rows_out} :
                 10 * code_freq(c) > 3 * Len(rows_out)})

\* the frequency pass with cnt >= threshold in place of cnt > threshold
FromTenth(rows_out, holder) ==
    LET code_freq(c) ==
            Cardinality({i \in DOMAIN rows_out : c \in Range(rows_out[i].codes)})
        Without(after) ==
            [rows |-> [i \in DOMAIN rows_out |->
                          [rows_out[i] EXCEPT
                              !.codes = Filter(LAMBDA c : c \notin after, @)]],
             holder |-> after]
        Pass(auto_owner_codes) ==
            IF rows_out = <<>> \/ auto_owner_codes = {}
            THEN [rows |-> rows_out, holder |-> holder]
            ELSE Without(holder \cup auto_owner_codes)
    IN  Pass({c \in UNION {Range(rows_out[i].codes) : i \in DOMAIN rows_out} :
                 10 * code_freq(c) >= Len(rows_out)})

\* codes occurring in more than a tenth of the rows are owner codes: they
\* join the holder set and are stripped from every row
FrequencyPass(rows_out, holder) ==
    LET code_freq(c) ==
            Cardinality({i \in DOMAIN rows_out : c \in Range(rows_out[i].codes)})
        Without(after) ==
            [rows |-> [i \in DOMAIN rows_out |->
                          [rows_out[i] EXCEPT
                              !.codes = Filter(LAMBDA c : c \notin after, @)]],
             holder |-> after]
        Pass(auto_owner_codes) ==
            IF rows_out = <<>> \/ auto_owner_codes = {}
            THEN [rows |-> rows_out, holder |-> holder]
            ELSE Without(holder \cup auto_owner_codes)
    IN  Pass({c \in UNION {Range(rows_out[i].codes) : i \in DOMAIN rows_out} :
                 10 * code_freq(c) > Len(rows_out)})

\* the group of ^\)(\d{4,5})\($ or ^\((\d{4,5})\)$ in a word of page 1
HeaderCode(text) ==
    LET n == Len(text)
    IN  IF /\ n \in {6, 7}
           /\ \/ text[1] = ")" /\ text[n] = "("
              \/ text[1] = "(" /\ text[n] = ")"
           /\ \A k \in 2..(n - 1) : IsDigit(text[k])
        THEN {SubSeq(text, 2, n - 1)} ELSE {}

\* round(y_mid / 5) * 5 with y_mid = (y0 + y1) / 2; round() sends a tie to
\* the even neighbour
YKey(w) ==
    LET t == w.y0 + w.y1
        q == t \div 10
        r == t % 10
    IN  5 * (IF r < 5 THEN q
             ELSE IF r > 5 THEN q + 1
             ELSE IF q % 2 = 0 THEN q ELSE q + 1)

\* sorted(..., key=x0, reverse=True): stable, largest x0 first
RECURSIVE SortByX(_)
SortByX(ws) ==
    IF ws = <<>> THEN <<>>
    ELSE LET i == Least({k \in DOMAIN ws : \A j \in DOMAIN ws : ws[k].x0 >= ws[j].x0})
         IN  <<ws[i]>> \o SortByX(SubSeq(ws, 1, i - 1) \o SubSeq(ws, i + 1, Len(ws)))

\* the text of the visual row y of a page
Line(words, y) ==
    LET Text(row_words) ==
            Strip(Join(<<" ">>, [i \in DOMAIN row_words |-> row_words[i].text]))
    IN  Text(SortByX(Filter(LAMBDA w : YKey(w) = y, words)))

\* sorted(ys), as a sequence
RECURSIVE Ascending(_)
Ascending(ys) ==
    IF ys = {} THEN <<>> ELSE <<Least(ys)>> \o Ascending(ys \ {Least(ys)})

\* [,\u060C./] : the separators inside an amount (comma, Persian comma, dot, slash)
IsAmountSep(c) == c \in {",", "fa,", ".", "/"}

\* how many groups [,\u060C./]\d{3} follow position e
RECURSIVE Groups(_, _)
Groups(s, e) ==
    IF /\ e + 4 <= Len(s)
       /\ IsAmountSep(s[e + 1])
       /\ \A k \in (e + 2)..(e + 4) : IsDigit(s[k])
    THEN 1 + Groups(s, e + 4) ELSE 0

\* the end of the match of (\d{1,3}(?:[,\u060C./]\d{3})+|\d{5,})\b that starts at
\* the digit run beginning at i, 0 when there is none
AmountEnd(s, i) ==
    LET e == RunEnd(IsDigit, s, i)
        n == e - i + 1
        k == Groups(s, e)
        last == e + 4 * k
        Bounded(p) == p = Len(s) \/ ~IsWordChar(s[p + 1])
    IN  IF n >= 5 THEN (IF Bounded(e) THEN e ELSE 0)
        ELSE IF n <= 3 /\ k >= 1
             THEN (IF Bounded(last) THEN last ELSE IF k >= 2 THEN last - 4 ELSE 0)
        ELSE 0

\* re.finditer(r"\b(\d{1,3}(?:[,\u060C./]\d{3})+|\d{5,})\b", s) from position i on
RECURSIVE AmountMatches(_, _)
AmountMatches(s, i) ==
    LET Next(e) ==
            IF e # 0 THEN <<SubSeq(s, i, e)>> \o AmountMatches(s, e + 1)
            ELSE AmountMatches(s, i + 1)
    IN  IF i > Len(s) THEN <<>>
        ELSE Next(IF IsDigit(s[i]) /\ (i = 1 \/ ~IsWordChar(s[i - 1]))
                  THEN AmountEnd(s, i) ELSE 0)

\* the repair of the last two digits alone
FixLastTwo(raw) ==
    IF Len(raw) > 6 /\ LastN(raw, 2) = <<"2", "2">>
    THEN SubSeq(raw, 1, Len(raw) - 2) \o <<"0", "0">>
    ELSE raw

\* a trailing run of two or more 2s of a number of more than six digits is
\* the font's rendering of zeros
FixGlyphs(raw) ==
    IF Len(raw) > 6 /\ LastN(raw, 2) = <<"2", "2">>
    THEN LET keep == RunStart(LAMBDA c : c = "2", raw, Len(raw)) - 1
         IN  SubSeq(raw, 1, keep) \o [k \in 1..(Len(raw) - keep) |-> "0"]
    ELSE raw

\* the amount texts without separators, the font's zeros restored
AmountTexts(ms) == [k \in DOMAIN ms |-> FixGlyphs(Remove(IsAmountSep, ms[k]))]

\* the values of the amount texts kept
AmountValues(kept) == [k \in DOMAIN kept |-> to_num(kept[k])]

\* the amounts of a line, in the order found: above 1000, at most 9 digits
Amounts(line_norm) ==
    AmountValues(Filter(LAMBDA f : Len(f) <= 9 /\ to_num(f) > 1000,
                        AmountTexts(AmountMatches(line_norm, 1))))

\* amounts.sort(reverse=True)
RECURSIVE Descending(_)
Descending(xs) ==
    IF xs = <<>> THEN <<>>
    ELSE LET i == Least({k \in DOMAIN xs : \A j \in DOMAIN xs : xs[k] >= xs[j]})
         IN  <<xs[i]>> \o Descending(SubSeq(xs, 1, i - 1) \o SubSeq(xs, i + 1, Len(xs)))

\* re.search(r"\b(\d{6,8})\b", line_norm)
DocNum(line_norm) ==
    LET First(rs) ==
            IF rs = {} THEN <<>>
            ELSE RunText(line_norm, CHOOSE r \in rs : \A q \in rs : r[1] <= q[1])
    IN  First(BoundedDigitRuns(line_norm, 6, 8))

\* the end of the match of 1[34]\d\d[\D]\d{1,2}[\D]\d{1,2} at i, 0 when none
DateEnd(s, i) ==
    LET e1 == RunEnd(IsDigit, s, i + 5)
        e2 == RunEnd(IsDigit, s, e1 + 2)
    IN  IF /\ i + 7 <= Len(s)
           /\ s[i] = "1" /\ s[i + 1] \in {"3", "4"}
           /\ IsDigit(s[i + 2]) /\ IsDigit(s[i + 3])
           /\ ~IsDigit(s[i + 4])
           /\ e1 - (i + 5) + 1 \in {1, 2}
           /\ e1 + 1 <= Len(s)
           /\ e2 >= e1 + 2
        THEN Min(e2, e1 + 3) ELSE 0

\* date_m.group(0) with "-" and "_" replaced by "/", "" without a match
DateStr(line_no_spaces) ==
    LET Slashed(m) == [k \in DOMAIN m |-> IF m[k] \in {"-", "_"} THEN "/" ELSE m[k]]
        Match(i) == SubSeq(line_no_spaces, i, DateEnd(line_no_spaces, i))
        From(is) == IF is = {} THEN <<>> ELSE Slashed(Match(Least(is)))
    IN  From({i \in 1..Len(line_no_spaces) : DateEnd(line_no_spaces, i) # 0})

\* the ledger row of a line with the credit amount and the codes and sender
PdfTxn(line, line_norm, credit, pd, page_num) ==
    IF ~(credit > 0) THEN [skip |-> TRUE]
    ELSE [skip     |-> FALSE,
          page     |-> page_num,
          date     |-> DateStr(Remove(IsSpace, line_norm)),
          doc_num  |-> DocNum(line_norm),
          desc     |-> Strip(FirstN(line, 200)),
          credit   |-> credit,
          debit    |-> 0,
          codes    |-> pd.codes,
          sender   |-> pd.sender,
          doc_type |-> DocTypeCredit,
          amount   |-> credit]

\* the ledger row of a line, the credit its largest amount
LargestIsCredit(line, line_norm, amounts, page_num, holder) ==
    IF line = <<>> \/ amounts = <<>> THEN [skip |-> TRUE]
    ELSE PdfTxn(line, line_norm, amounts[1], parse_desc(line, holder), page_num)

\* the ledger row of a line, the credit its smallest amount
SmallestIsCredit(line, line_norm, amounts, page_num, holder) ==
    IF line = <<>> \/ amounts = <<>> THEN [skip |-> TRUE]
    ELSE PdfTxn(line, line_norm, amounts[Len(amounts)], parse_desc(line, holder),
                page_num)

\* the ledger row of a line with its amounts, largest first: the credit is
\* the second largest amount, the only one when there is one
PdfAmounts(line, line_norm, amounts, page_num, holder) ==
    IF line = <<>> \/ amounts = <<>> THEN [skip |-> TRUE]
    ELSE PdfTxn(line, line_norm,
                IF Len(amounts) >= 2 THEN amounts[2] ELSE amounts[1],
                parse_desc(line, holder), page_num)

\* the ledger row of one assembled line, or [skip |-> TRUE]
PdfRow(line, page_num, holder) ==
    PdfAmounts(line, FA_DIGITS(line), Descending(Amounts(FA_DIGITS(line))),
               page_num, holder)

\* drop the skipped rows and the skip field
Unskipped(rs) ==
    LET Fields(kept) ==
            [i \in DOMAIN kept |-> [f \in DOMAIN kept[i] \ {"skip"} |-> kept[i][f]]]
    IN  Fields(Filter(LAMBDA r : ~r.skip, rs))

\* the rows of the lines of a page, top to bottom
LineRows(words, sorted_y, page_num, holder) ==
    [k \in DOMAIN sorted_y |-> PdfRow(Line(words, sorted_y[k]), page_num, holder)]

\* the rows of one page
PageRows(words, page_num, holder) ==
    Unskipped(LineRows(words, Ascending({YKey(words[i]) : i \in DOMAIN words}),
                       page_num, holder))

\* the holder codes in the words of page 1
HeaderCodes(doc) ==
    IF doc = <<>> THEN {}
    ELSE UNION {HeaderCode(doc[1][i].text) : i \in DOMAIN doc[1]}

\* the rows of all pages, parsed under the seeded holder set
PdfRows(doc, seeded) ==
    Concat([p \in DOMAIN doc |-> PageRows(doc[p], p, seeded)])

\* parse_pdf: the rows of the statement and ACCOUNT_HOLDER_CODES on return;
\* the set is emptied on entry and seeded from the words of page 1
parse_pdf(doc) == FrequencyPass(PdfRows(doc, HeaderCodes(doc)), HeaderCodes(doc))

HtmlDesc == <<"sh","r","hh">>
HtmlCredit == <<"b","s","t","a","n","k","a","r">>
HtmlDebit == <<"b","d","h","k","a","r">>
HtmlDate == <<"t","a","r","y","kh">>
HtmlRadif == <<"r","d","y","f">>

NoColumns == [desc |-> -1, credit |-> -1, debit |-> -1, date |-> -1]

\* the column a header cell names, by the first of the four tests it passes
HeaderKind(text) ==
    IF Contains(text, HtmlDesc) THEN "desc"
    ELSE IF Contains(text, HtmlCredit) THEN "credit"
    ELSE IF Contains(text, HtmlDebit) THEN "debit"
    ELSE IF Contains(text, HtmlDate) THEN "date"
    ELSE "none"

\* the column indexes after the header scan of a table: the index counts
\* every th and td of the table, the last hit of a column wins, and a column
\* without a hit keeps the index it had before the table
ScanHeaders(headers, idx) ==
    LET Last(kind, hits) == IF hits = {} THEN idx[kind] ELSE Greatest(hits) - 1
    IN  [kind \in {"desc", "credit", "debit", "date"} |->
            Last(kind, {i \in DOMAIN headers :
                           HeaderKind(Strip(headers[i].text)) = kind})]

Max(a, b) == IF a >= b THEN a ELSE b

\* the ledger row of a tr with its description, date, amounts, codes and
\* sender; texts are the stripped texts of its td cells
HtmlTxn(texts, idx, desc, date_str, credit, debit, pd) ==
    IF Len(texts) <= Max(idx.desc, idx.credit) THEN [skip |-> TRUE]
    ELSE IF Contains(desc, HtmlDesc) \/ Contains(desc, HtmlRadif) \/ desc = <<>>
         THEN [skip |-> TRUE]
    ELSE IF credit = 0 /\ debit = 0 THEN [skip |-> TRUE]
    ELSE [skip     |-> FALSE,
          tx_key   |-> <<date_str, FirstN(desc, 100), credit, debit>>,
          page     |-> 1,
          date     |-> date_str,
          doc_num  |-> <<>>,
          desc     |-> FirstN(desc, 200),
          credit   |-> credit,
          debit    |-> debit,
          codes    |-> pd.codes,
          sender   |-> pd.sender,
          doc_type |-> IF credit > 0 THEN DocTypeCredit ELSE DocTypeDebit,
          amount   |-> IF credit > 0 THEN credit ELSE debit]

\* the cells of a tr read under the column indexes
HtmlCells(texts, idx, desc, holder) ==
    HtmlTxn(texts, idx, desc,
            IF idx.date # -1 /\ Len(texts) > idx.date
            THEN texts[idx.date + 1] ELSE <<>>,
            OrZero(to_num(texts[idx.credit + 1])),
            OrZero(to_num(IF idx.debit # -1 /\ Len(texts) > idx.debit
                          THEN texts[idx.debit + 1] ELSE <<"0">>)),
            parse_desc(desc, holder))

\* desc = " | ".join of the non-empty cell texts
HtmlTexts(texts, idx, holder) ==
    HtmlCells(texts, idx,
              Join(<<" ", "|", " ">>, Filter(LAMBDA t : t # <<>>, texts)), holder)

\* the td cells of a tr
Tds(tr) == Filter(LAMBDA c : c.tag = "td", tr)

\* the ledger row of one tr before the seen_tx test, or [skip |-> TRUE]
HtmlRow(tr, idx, holder) ==
    HtmlTexts([i \in DOMAIN Tds(tr) |-> Strip(Tds(tr)[i].text)], idx, holder)

\* the column indexes in force for the rows of the t-th table
RECURSIVE ColumnsAt(_, _)
ColumnsAt(tables, t) ==
    IF t = 0 THEN NoColumns
    ELSE ScanHeaders(Concat(tables[t]), ColumnsAt(tables, t - 1))

\* the transaction rows of a table under the column indexes; a table is
\* processed only when both the description and the credit column are known
RowsUnder(table, idx, holder) ==
    IF idx.desc # -1 /\ idx.credit # -1
    THEN Filter(LAMBDA r : ~r.skip,
                [i \in DOMAIN table |-> HtmlRow(table[i], idx, holder)])
    ELSE <<>>

\* the transaction rows of the t-th table
TableRows(tables, t, holder) == RowsUnder(tables[t], ColumnsAt(tables, t), holder)

\* seen_tx: of the rows with the same key only the first is kept
FirstOfKey(rs) ==
    LET Fields(kept) ==
            [k \in DOMAIN kept |->
                [f \in DOMAIN rs[kept[k]] \ {"skip", "tx_key"} |-> rs[kept[k]][f]]]
    IN  Fields(Ascending({i \in DOMAIN rs :
                             \A j \in 1..(i - 1) : rs[j].tx_key # rs[i].tx_key}))

\* parse_html: the rows of the statement and ACCOUNT_HOLDER_CODES on return;
\* holder is ACCOUNT_HOLDER_CODES on entry
parse_html(tables, holder) ==
    FrequencyPass(
        FirstOfKey(Concat([t \in DOMAIN tables |-> TableRows(tables, t, holder)])),
        holder)

(***************************************************************************)
(* Lock write-back of the analyze route                                    *)
(***************************************************************************)
\* "tatbiq shode - ", the head of new_lock_msg
LockPrefix == <<"t","tt","b","y","q"," ","sh","d","h"," ","-"," ">>

\* the column the lock text is written to
LockColumn == 15

\* the locking step without old_locks: every matched or locked row gets the
\* new marker
Relocked(df, bank_txns, results, pdf_base_name) ==
    LET all_matched_rows ==
            {results[i].bank_row :
                i \in {k \in DOMAIN results : results[k].status \in {"exact", "review"}
                                              /\ results[k].bank_row # NoRow}}
            \cup {bank_txns[i].row_num : i \in {k \in DOMAIN bank_txns : bank_txns[k].is_locked}}
        width == Max(LockColumn, IF df = <<>> THEN 0 ELSE Len(df[1]))
        Cell(ri, ci) ==
            IF ri \in all_matched_rows /\ ci = LockColumn THEN LockPrefix \o pdf_base_name
            ELSE IF ci <= Len(df[ri]) THEN df[ri][ci]
            ELSE <<>>
    IN  IF all_matched_rows = {} THEN df
        ELSE [ri \in DOMAIN df |-> [ci \in 1..width |-> Cell(ri, ci)]]

\* the workbook saved by the locking step: the sheet as read, every matched
\* or already locked row with its lock text in column 15; the sheet is
\* untouched when no row is matched or locked
LockedExcel(df, bank_txns, results, pdf_base_name) ==
    LET new_matched_rows ==
            {results[i].bank_row :
                i \in {k \in DOMAIN results : results[k].status \in {"exact", "review"}
                                              /\ results[k].bank_row # NoRow}}
        locked == {i \in DOMAIN bank_txns : bank_txns[i].is_locked}
        all_matched_rows == new_matched_rows \cup {bank_txns[i].row_num : i \in locked}
        new_lock_msg == LockPrefix \o pdf_base_name
        msg(r_idx) ==
            LET old == {i \in locked : bank_txns[i].row_num = r_idx
                                       /\ bank_txns[i].lock_text # <<>>}
            IN  IF old = {} THEN new_lock_msg
                ELSE bank_txns[Greatest(old)].lock_text
        width == Max(LockColumn, IF df = <<>> THEN 0 ELSE Len(df[1]))
        Cell(ri, ci) ==
            IF ri \in all_matched_rows /\ ci = LockColumn THEN msg(ri)
            ELSE IF ci <= Len(df[ri]) THEN df[ri][ci]
            ELSE <<>>
    IN  IF all_matched_rows = {} THEN df
        ELSE [ri \in DOMAIN df |-> [ci \in 1..width |-> Cell(ri, ci)]]

(***************************************************************************)
(* Uploaded files                                                          *)
(***************************************************************************)
\* a bank statement with a title row above the header row (reference, date,
\* description, deposit, withdrawal); row 6 is a total line the parser
\* discards and row 9 carries the marker of an earlier pass
BankWithHeader ==
    <<<<<<"ss","v","r","t","hh","s","a","b">>, <<>>, <<>>, <<>>, <<>>>>,
      <<<<"sh","m","a","r","h"," ","s","n","d">>, <<"t","a","r","y","kh">>, <<"sh","r","hh">>, <<"v","a","r","y","z">>, <<"b","r","d","a","sh","t">>>>,
      <<<<"1","2","3","4">>, <<"1","4","0","4","/","0","1","/","0","1">>, <<"ay","l","y"," ","r","zz","a","y","y">>, <<"1","0","0","0","0">>, <<>>>>,
      <<<<"5","6","7","8">>, <<"1","4","0","4","/","0","1","/","0","2">>, <<"a","n","t","q","a","l">>, <<"2","0","0","0","0">>, <<>>>>,
      <<<<"9","9","9","9","5","6","7","8">>, <<"1","4","0","4","/","0","1","/","0","3">>, <<"a","n","t","q","a","l">>, <<"2","0","0","0","0">>, <<>>>>,
      <<<<>>, <<>>, <<"j","m","ay">>, <<>>, <<>>>>,
      <<<<>>, <<"1","4","0","4","/","0","1","/","0","4">>, <<"hh","s","n"," ","z","a","r","ay">>, <<"1","0","4","9","9">>, <<>>>>,
      <<<<>>, <<"1","4","0","4","/","0","1","/","0","5">>, <<"r","zz","a"," ","k","r","y","m","y">>, <<"1","0","5","0","0">>, <<>>>>,
      <<<<"2","4","5","2">>, <<"1","4","0","4","/","0","1","/","0","6">>, <<"m","r","y","m"," ","t","tt","b","y","q"," ","sh","d","h"," ","-"," ","q","b","l","y">>, <<"3","0","0","0","0">>, <<>>>>,
      <<<<"7","7","7","7">>, <<"1","4","0","4","/","0","1","/","0","7">>, <<"b","r","d","a","sh","t">>, <<>>, <<"4","0","0","0","0">>>>,
      <<<<>>, <<"1","4","0","4","/","0","1","/","0","8">>, <<"m","t","f","r","q","h">>, <<"5","5","5","5","5">>, <<>>>>>>

\* a bank statement without a header row
BankWithoutHeader ==
    <<<<<<"0","0","0","0","0","0","1","2","3","4">>, <<"v","a","r","y","z"," ","ay","l","y"," ","r","zz","a","y","y">>, <<"2","5","0","0","0","0">>>>,
      <<<<"_a","_b","_c">>, <<>>, <<>>>>,
      <<<<"0","0","0","0","0","0","2","4","5","2">>, <<"m","r","y","m"," ","t","tt","b","y","q"," ","sh","d","h"," ","-"," ","q","b","l","y">>, <<"3","0","0","0","0","0">>>>>>

\* a bank statement of fifteen columns whose last column is the reference
BankWide ==
    <<<<<<"t","a","r","y","kh">>, <<"sh","r","hh">>, <<"v","a","r","y","z">>, <<>>, <<>>, <<>>, <<>>, <<>>, <<>>, <<>>, <<>>, <<>>, <<>>, <<>>, <<"sh","m","a","r","h"," ","s","n","d">>>>,
      <<<<"1","4","0","4","/","0","2","/","0","1">>, <<"a","n","t","q","a","l">>, <<"1","0","0","0","0">>, <<>>, <<>>, <<>>, <<>>, <<>>, <<>>, <<>>, <<>>, <<>>, <<>>, <<>>, <<"1","2","3","4">>>>,
      <<<<"1","4","0","4","/","0","2","/","0","2">>, <<"a","n","t","q","a","l">>, <<"2","0","0","0","0">>, <<>>, <<>>, <<>>, <<>>, <<>>, <<>>, <<>>, <<>>, <<>>, <<>>, <<>>, <<"5","6","7","8">>>>>>

BankFiles == {BankWithHeader, BankWithoutHeader, BankWide}

\* an HTML ledger: description, credit, debit
HtmlLedger ==
    <<<<<<[tag |-> "th", text |-> <<"sh","r","hh">>], [tag |-> "th", text |-> <<"b","s","t","a","n","k","a","r">>], [tag |-> "th", text |-> <<"b","d","h","k","a","r">>]>>,
        <<[tag |-> "td", text |-> <<"ay","l","y"," ","r","zz","a","y","y","/","1","2","3","4">>], [tag |-> "td", text |-> <<"1","0","0","0","0">>], [tag |-> "td", text |-> <<"0">>]>>,
        <<[tag |-> "td", text |-> <<"a","n","t","q","a","l","/","9","9","9","9","5","6","7","8">>], [tag |-> "td", text |-> <<"2","0","0","0","0">>], [tag |-> "td", text |-> <<"0">>]>>,
        <<[tag |-> "td", text |-> <<"hh","s","n"," ","z","a","r","ay","/","4","3","2","1">>], [tag |-> "td", text |-> <<"1","0","0","0","0">>], [tag |-> "td", text |-> <<"0">>]>>,
        <<[tag |-> "td", text |-> <<"r","zz","a"," ","k","r","y","m","y","/","4","3","2","2">>], [tag |-> "td", text |-> <<"1","0","0","0","0">>], [tag |-> "td", text |-> <<"0">>]>>,
        <<[tag |-> "td", text |-> <<"m","r","y","m","/","2","4","5","2">>], [tag |-> "td", text |-> <<"3","0","0","0","0">>], [tag |-> "td", text |-> <<"0">>]>>,
        <<[tag |-> "td", text |-> <<"n","a","sh","n","a","s","/","4","3","2","3">>], [tag |-> "td", text |-> <<"5","5","5","5","5">>], [tag |-> "td", text |-> <<"0">>]>>,
        <<[tag |-> "td", text |-> <<"b","r","d","a","sh","t","/","7","7","7","7">>], [tag |-> "td", text |-> <<"0">>], [tag |-> "td", text |-> <<"4","0","0","0","0">>]>>,
        <<[tag |-> "td", text |-> <<"ss","a","d","q","/","8","1","8","1">>], [tag |-> "td", text |-> <<"6","0","0","0","0">>], [tag |-> "td", text |-> <<"0">>]>>,
        <<[tag |-> "td", text |-> <<"n","q","d","/","4","3","2","4">>], [tag |-> "td", text |-> <<"7","0","0","0","0">>], [tag |-> "td", text |-> <<"0">>]>>,
        <<[tag |-> "td", text |-> <<"n","q","d","/","4","3","2","5">>], [tag |-> "td", text |-> <<"8","0","0","0","0">>], [tag |-> "td", text |-> <<"0">>]>>,
        <<[tag |-> "td", text |-> <<"n","q","d","/","4","3","2","6">>], [tag |-> "td", text |-> <<"9","0","0","0","0">>], [tag |-> "td", text |-> <<"0">>]>>>>>>

\* an HTML ledger with a row of two codes and rows of negative cells
HtmlLedgerSigned ==
    <<<<<<[tag |-> "th", text |-> <<"sh","r","hh">>], [tag |-> "th", text |-> <<"b","s","t","a","n","k","a","r">>], [tag |-> "th", text |-> <<"b","d","h","k","a","r">>]>>,
        <<[tag |-> "td", text |-> <<"[","1","2","3","4","]"," ","a","n","t","q","a","l","/","9","9","9","9","5","6","7","8">>], [tag |-> "td", text |-> <<"2","0","0","0","0">>], [tag |-> "td", text |-> <<"0">>]>>,
        <<[tag |-> "td", text |-> <<"m","n","f","y","/","4","3","3","1">>], [tag |-> "td", text |-> <<"-","5","0","0">>], [tag |-> "td", text |-> <<"0">>]>>,
        <<[tag |-> "td", text |-> <<"m","n","f","y","/","4","3","3","2">>], [tag |-> "td", text |-> <<"0">>], [tag |-> "td", text |-> <<"-","5","0","0">>]>>,
        <<[tag |-> "td", text |-> <<"n","q","d","/","4","3","3","3">>], [tag |-> "td", text |-> <<"6","1","0","0","0">>], [tag |-> "td", text |-> <<"0">>]>>,
        <<[tag |-> "td", text |-> <<"n","q","d","/","4","3","3","4">>], [tag |-> "td", text |-> <<"6","2","0","0","0">>], [tag |-> "td", text |-> <<"0">>]>>,
        <<[tag |-> "td", text |-> <<"n","q","d","/","4","3","3","5">>], [tag |-> "td", text |-> <<"6","3","0","0","0">>], [tag |-> "td", text |-> <<"0">>]>>,
        <<[tag |-> "td", text |-> <<"n","q","d","/","4","3","3","6">>], [tag |-> "td", text |-> <<"6","4","0","0","0">>], [tag |-> "td", text |-> <<"0">>]>>,
        <<[tag |-> "td", text |-> <<"n","q","d","/","4","3","3","7">>], [tag |-> "td", text |-> <<"6","5","0","0","0">>], [tag |-> "td", text |-> <<"0">>]>>,
        <<[tag |-> "td", text |-> <<"n","q","d","/","4","3","3","8">>], [tag |-> "td", text |-> <<"6","6","0","0","0">>], [tag |-> "td", text |-> <<"0">>]>>,
        <<[tag |-> "td", text |-> <<"n","q","d","/","4","3","3","9">>], [tag |-> "td", text |-> <<"6","7","0","0","0">>], [tag |-> "td", text |-> <<"0">>]>>,
        <<[tag |-> "td", text |-> <<"n","q","d","/","4","3","4","0">>], [tag |-> "td", text |-> <<"6","8","0","0","0">>], [tag |-> "td", text |-> <<"0">>]>>>>>>

HtmlFiles == {HtmlLedger, HtmlLedgerSigned}

\* a PDF ledger of one page: the header line with the account holder's
\* code, then one line per transaction
PdfLedger ==
    <<<<[x0 |-> 200, y0 |-> 0, y1 |-> 2, text |-> <<"hh","s","a","b">>],
        [x0 |-> 100, y0 |-> 0, y1 |-> 2, text |-> <<")","8","1","8","1","(">>],
        [x0 |-> 20, y0 |-> 0, y1 |-> 2, text |-> <<"0","4","1","2","0","6","0","1","7","1">>],
        [x0 |-> 200, y0 |-> 10, y1 |-> 12, text |-> <<"r","zz","a","y","y","/","1","2","3","4">>],
        [x0 |-> 20, y0 |-> 10, y1 |-> 12, text |-> <<"1","0",",","0","0","0">>],
        [x0 |-> 200, y0 |-> 20, y1 |-> 22, text |-> <<"a","n","t","q","a","l","/","9","9","9","9","5","6","7","8">>],
        [x0 |-> 20, y0 |-> 20, y1 |-> 22, text |-> <<"2","0",",","0","0","0">>],
        [x0 |-> 200, y0 |-> 30, y1 |-> 32, text |-> <<"z","a","r","ay","/","4","3","2","1">>],
        [x0 |-> 20, y0 |-> 30, y1 |-> 32, text |-> <<"1","0",",","0","0","0">>],
        [x0 |-> 200, y0 |-> 40, y1 |-> 42, text |-> <<"m","r","y","m","/","2","4","5","2">>],
        [x0 |-> 20, y0 |-> 40, y1 |-> 42, text |-> <<"3","0",",","0","0","0">>],
        [x0 |-> 200, y0 |-> 50, y1 |-> 52, text |-> <<"ss","a","d","q","/","8","1","8","1">>],
        [x0 |-> 20, y0 |-> 50, y1 |-> 52, text |-> <<"6","0",",","0","0","0">>],
        [x0 |-> 200, y0 |-> 60, y1 |-> 62, text |-> <<"n","q","d","/","4","3","2","4">>],
        [x0 |-> 20, y0 |-> 60, y1 |-> 62, text |-> <<"7","0",",","0","0","0">>],
        [x0 |-> 200, y0 |-> 70, y1 |-> 72, text |-> <<"n","q","d","/","4","3","2","5">>],
        [x0 |-> 20, y0 |-> 70, y1 |-> 72, text |-> <<"8","0",",","0","0","0">>],
        [x0 |-> 200, y0 |-> 80, y1 |-> 82, text |-> <<"n","q","d","/","4","3","2","6">>],
        [x0 |-> 20, y0 |-> 80, y1 |-> 82, text |-> <<"9","0",",","0","0","0">>],
        [x0 |-> 200, y0 |-> 90, y1 |-> 92, text |-> <<"n","q","d","/","4","3","2","7">>],
        [x0 |-> 20, y0 |-> 90, y1 |-> 92, text |-> <<"9","1",",","0","0","0">>],
        [x0 |-> 200, y0 |-> 100, y1 |-> 102, text |-> <<"n","q","d","/","4","3","2","8">>],
        [x0 |-> 20, y0 |-> 100, y1 |-> 102, text |-> <<"9","2",",","0","0","0">>],
        [x0 |-> 200, y0 |-> 110, y1 |-> 112, text |-> <<"n","q","d","/","4","3","2","9">>],
        [x0 |-> 20, y0 |-> 110, y1 |-> 112, text |-> <<"9","3",",","0","0","0">>]>>>>

PdfFiles == {PdfLedger}

(***************************************************************************)
(* The service: one analyze request after another.  A request parses the   *)
(* uploaded ledger, parses the bank statement, matches, and saves the      *)
(* locked workbook; the next request is made with the saved workbook.      *)
(***************************************************************************)
VARIABLES
    ACCOUNT_HOLDER_CODES,   \* the module-level set of account holder codes
    excel_file,             \* the bank workbook, as last saved
    pdf_file,               \* the ledger upload of the request in progress
    pdf_rows,               \* the ledger rows parsed from it
    bank_txns,              \* the bank transactions parsed from excel_file
    rows,                   \* match_receipts: the ledger rows its pre-filter kept
    results,                \* the results of match_receipts
    opts,                   \* the form options of the request
    pc,                     \* the step the request is at
    passes,                 \* the requests completed
    call,                   \* a function called on its own: its name and arguments
    ret                     \* what the call returned

vars == <<ACCOUNT_HOLDER_CODES, excel_file, pdf_file, pdf_rows, bank_txns, rows,
          results, opts, pc, passes, call, ret>>

\* the requests a run makes
MaxPasses == 2

\* the stem of the ledger's file name ("ledger.pdf", "ledger.html")
LedgerStem == <<"_l","_e","_d","_g","_e","_r">>

\* the form defaults
DefaultOpts ==
    [credit_only |-> TRUE, use_tracking |-> TRUE, use_name |-> TRUE,
     use_amount |-> TRUE, tx_type_filter |-> "all"]

Options ==
    [credit_only : BOOLEAN, use_tracking : BOOLEAN, use_name : BOOLEAN,
     use_amount : BOOLEAN, tx_type_filter : {"all", "deposit", "withdrawal"}]

NoFile == [kind |-> "none", doc |-> <<>>]

\* no function is called on its own
NoCall == [fn |-> "none"]
NoRet == [done |-> FALSE, value |-> <<>>, raised |-> FALSE]

Init ==
    /\ ACCOUNT_HOLDER_CODES = {}
    /\ excel_file \in BankFiles
    /\ pdf_file = NoFile
    /\ pdf_rows = <<>>
    /\ bank_txns = <<>>
    /\ rows = <<>>
    /\ results = <<>>
    /\ opts = DefaultOpts
    /\ pc = "idle"
    /\ passes = 0
    /\ call = NoCall
    /\ ret = NoRet

\* analyze, the ledger is a PDF
ParsePdf ==
    /\ pc = "idle"
    /\ passes < MaxPasses
    /\ \E doc \in PdfFiles : \E parsed \in {parse_pdf(doc)} :
          /\ pdf_file' = [kind |-> "pdf", doc |-> doc]
          /\ pdf_rows' = parsed.rows
          /\ ACCOUNT_HOLDER_CODES' = parsed.holder
    /\ pc' = "ledger"
    /\ UNCHANGED <<excel_file, bank_txns, rows, results, opts, passes, call, ret>>

\* analyze, the ledger is an HTML file
ParseHtml ==
    /\ pc = "idle"
    /\ passes < MaxPasses
    /\ \E doc \in HtmlFiles : \E parsed \in {parse_html(doc, ACCOUNT_HOLDER_CODES)} :
          /\ pdf_file' = [kind |-> "html", doc |-> doc]
          /\ pdf_rows' = parsed.rows
          /\ ACCOUNT_HOLDER_CODES' = parsed.holder
    /\ pc' = "ledger"
    /\ UNCHANGED <<excel_file, bank_txns, rows, results, opts, passes, call, ret>>

\* analyze: the bank statement
ParseExcel ==
    /\ pc = "ledger"
    /\ bank_txns' = parse_excel(excel_file)
    /\ pc' = "bank"
    /\ UNCHANGED <<ACCOUNT_HOLDER_CODES, excel_file, pdf_file, pdf_rows, rows,
                   results, opts, passes, call, ret>>

\* analyze: the matching, under the options of the form
MatchReceipts ==
    /\ pc = "bank"
    /\ \E o \in Options :
          \E kept \in {KeptOf(pdf_rows, o)}, txns \in {IndexedOf(bank_txns, o)} :
             /\ ~Raises(kept, txns)
             /\ opts' = o
             /\ rows' = kept
             /\ results' = Results(kept, txns, o)
    /\ pc' = "matched"
    /\ UNCHANGED <<ACCOUNT_HOLDER_CODES, excel_file, pdf_file, pdf_rows, bank_txns,
                   passes, call, ret>>

\* analyze: the locked workbook is saved and the response sent
SaveLocked ==
    /\ pc = "matched"
    /\ excel_file' = LockedExcel(excel_file, bank_txns, results, LedgerStem)
    /\ pdf_file' = NoFile
    /\ pdf_rows' = <<>>
    /\ bank_txns' = <<>>
    /\ rows' = <<>>
    /\ results' = <<>>
    /\ opts' = DefaultOpts
    /\ pc' = "idle"
    /\ passes' = passes + 1
    /\ UNCHANGED <<ACCOUNT_HOLDER_CODES, call, ret>>

Next == ParsePdf \/ ParseHtml \/ ParseExcel \/ MatchReceipts \/ SaveLocked

Spec == Init /\ [][Next]_vars

(***************************************************************************)
(* The functions on their own.  A run calls one function once: call holds  *)
(* its name and arguments, drawn from the bounded sets below; the step of  *)
(* the function puts what it returns into ret.                             *)
(***************************************************************************)
\* the state of the service, which these runs leave alone
Service ==
    <<ACCOUNT_HOLDER_CODES, excel_file, pdf_file, pdf_rows, bank_txns, rows,
      results, opts, pc, passes>>

\* the sequences over S of at most n elements
SeqsUpTo(S, n) == UNION {[1..k -> S] : k \in 0..n}

\* a ledger row as the parsers return it
LedgerRow(desc, codes, sender, credit, debit) ==
    [page     |-> 1,
     date     |-> <<>>,
     doc_num  |-> <<>>,
     desc     |-> desc,
     credit   |-> credit,
     debit    |-> debit,
     codes    |-> codes,
     sender   |-> sender,
     doc_type |-> IF credit > 0 THEN DocTypeCredit ELSE DocTypeDebit,
     amount   |-> IF credit > 0 THEN credit ELSE debit]

\* a bank transaction as parse_excel returns it, read from sheet row row_num
BankTxn(row_num, code, amount, tx_type, sender, is_locked) ==
    [row_num   |-> row_num,
     ref       |-> code,
     last4     |-> IF Len(code) >= 4 THEN LastN(code, 4) ELSE code,
     all_codes |-> IF code # <<>> THEN {code} ELSE {},
     amount    |-> amount,
     tx_type   |-> tx_type,
     date      |-> <<>>,
     desc      |-> sender,
     sender    |-> sender,
     is_locked |-> is_locked,
     lock_text |-> IF is_locked THEN LockMarker ELSE <<>>]

\* the transactions of the shapes, one sheet row each below a header row
Numbered(shapes) ==
    [n \in DOMAIN shapes |->
        BankTxn(n + 1, shapes[n].code, shapes[n].amount, shapes[n].tx_type,
                shapes[n].sender, shapes[n].is_locked)]

\* a description with a banking keyword ("naqd"), one without
Cash == <<"n","q","d">>
Goods == <<"k","a","l","a">>

\* two senders, the second containing the first
Ali == <<"ay","l","y">>
AliReza == <<"ay","l","y"," ","r","zz","a">>

\* the largest number of ledger rows of a call, and of bank transactions
MaxGateRows == 1
MaxGateTxns == 1

\* match_receipts on rows with and without codes and senders, against a
\* transaction of the sender Ali with and without the code 1234
GateRows ==
    {LedgerRow(Cash, codes, sender, credit, 0) :
        codes \in {<<>>, <<<<"4","3","2","1">>>>, <<<<"1","2","3","4">>>>},
        sender \in {<<>>, Ali},
        credit \in {0, 1000}}

GateTxns ==
    [code : {<<>>, <<"1","2","3","4">>}, amount : {1000, None},
     tx_type : {"deposit"}, sender : {Ali}, is_locked : {FALSE}]

GateCalls ==
    {[fn |-> "match_receipts", pdf_rows |-> rs, bank_txns |-> Numbered(ts),
      opts |-> [DefaultOpts EXCEPT !.use_name = un, !.use_tracking = ut,
                                   !.credit_only = FALSE]] :
        rs \in SeqsUpTo(GateRows, MaxGateRows), ts \in SeqsUpTo(GateTxns, MaxGateTxns),
        un \in BOOLEAN, ut \in BOOLEAN}

\* the digit runs of an amount: every run of at most MaxRun digits out of
\* 0, 2 and 7, and the runs 123456722 and 4322
GlyphDigits == {"0", "2", "7"}
MaxRun == 8

RawRuns ==
    UNION {[1..k -> GlyphDigits] : k \in 1..MaxRun}
    \cup {<<"1","2","3","4","5","6","7","2","2">>, <<"4","3","2","2">>}

GlyphCalls == {[fn |-> "FixGlyphs", raw |-> raw] : raw \in RawRuns}

\* the numbers of a ledger line as printed, with their values; kept tells
\* whether the number is an amount candidate (above 1000, at most 9 digits)
AmountTokens ==
    {[text |-> <<"5","0",",","0","0","0">>, value |-> 50000, kept |-> TRUE],
     [text |-> <<"1",",","2","0","0",",","0","0","0">>, value |-> 1200000, kept |-> TRUE],
     [text |-> <<"9","9","9",",","9","9","9">>, value |-> 999999, kept |-> TRUE],
     [text |-> <<"7","5","0",",","0","0","0">>, value |-> 750000, kept |-> TRUE],
     [text |-> <<"1",",","0","0","0">>, value |-> 1000, kept |-> FALSE],
     [text |-> <<"1","2","3","4","5","6","7","8","9","0">>, value |-> 1234567890,
      kept |-> FALSE]}

\* the largest number of numbers on a line
MaxAmounts == 3

\* the line: the word "naqd" and the numbers after it
LineOf(tokens) ==
    Join(<<" ">>, <<Cash>> \o [k \in DOMAIN tokens |-> tokens[k].text])

LineCalls ==
    {[fn |-> "PdfRow", tokens |-> ts, line |-> LineOf(ts)] :
        ts \in SeqsUpTo(AmountTokens, MaxAmounts)}

\* pieces of a ledger description, one for each pattern of parse_desc, with
\* the codes the piece holds wherever it stands in a description
NameSlash2452 == <<"kh","d","m","t","y","/","2","4","5","2">>
Bracket24454 == <<"[","ss","a","d","r","a","t",",","2","4","4","5","4","]">>

Fragments ==
    {[text |-> NameSlash2452, codes |-> {<<"2","4","5","2">>}],
     [text |-> <<"1","2","6","4","/","v","a","hh","d">>, codes |-> {<<"1","2","6","4">>}],
     [text |-> <<"8","8","4","2","[","gh","f","a","r","y","]">>,
      codes |-> {<<"8","8","4","2">>}],
     [text |-> Bracket24454, codes |-> {<<"2","4","4","5","4">>}],
     [text |-> <<"["," ","b","a","n","k"," ","m","n","sh","a","d","y"," ","]","3","0","3","0">>,
      codes |-> {<<"3","0","3","0">>}],
     [text |-> <<"|"," ","5","5","5","5"," ","|">>, codes |-> {<<"5","5","5","5">>}],
     [text |-> <<"|"," ","6","6","6","6">>, codes |-> {}],
     [text |-> <<"0","2","6","0","/","2","5","0","2">>,
      codes |-> {<<"0","2","6","0">>, <<"2","5","0","2">>}]}

\* the largest number of pieces of a description
MaxFragments == 2

\* ACCOUNT_HOLDER_CODES at the time of the call
HolderSets == {{}, {<<"2","4","5","2">>}, {<<"2","4","4","5","4">>, <<"8","8","4","2">>}}

DescOf(fragments) == Join(<<" ">>, [k \in DOMAIN fragments |-> fragments[k].text])

DescCalls ==
    {[fn |-> "parse_desc", fragments |-> fs, desc |-> DescOf(fs), holder |-> h] :
        fs \in SeqsUpTo(Fragments, MaxFragments), h \in HolderSets}

\* sheets of one transaction of the reference 1234: under a header row with
\* the deposit cell given, and without a header row, where the row has a
\* reference and no amount
Headed(deposit) ==
    <<<<<<"t","a","r","y","kh">>, <<"sh","r","hh">>, <<"v","a","r","y","z">>,
        <<"sh","m","a","r","h"," ","s","n","d">>>>,
      <<<<"1","4","0","4","/","0","1","/","0","1">>, Ali, deposit, <<"1","2","3","4">>>>>>

Headless == <<<<<<"0","0","0","0","0","0","1","2","3","4">>, Ali>>>>

Sheets ==
    {Headed(<<"1","0","0","0">>), Headed(<<>>), Headed(<<"_i","_n","_f">>), Headless}

\* ledger rows with and without a banking keyword, codes and a sender, of an
\* amount, of the amount zero, of no amount (None) and of the infinite amount
\* to_num returns for the cell "inf"
PlainRows ==
    {LedgerRow(Goods, <<<<"1","2","3","4">>>>, Ali, 1000, 0),
     LedgerRow(Cash, <<<<"1","2","3","4">>>>, Ali, 1000, 0),
     LedgerRow(Cash, <<<<"1","2","3","4">>>>, Ali, Infinity, 0),
     LedgerRow(Cash, <<>>, <<>>, 1000, 0),
     LedgerRow(Cash, <<>>, <<>>, 0, 0),
     LedgerRow(Cash, <<>>, <<>>, None, 0)}

\* the largest number of ledger rows matched against a sheet
MaxPlainRows == 2

\* match_receipts on the transactions parse_excel returns for a sheet
SheetCalls ==
    {[fn |-> "match_receipts", pdf_rows |-> rs, bank_txns |-> txns,
      opts |-> [DefaultOpts EXCEPT !.credit_only = co]] :
        rs \in SeqsUpTo(PlainRows, MaxPlainRows),
        txns \in {parse_excel(sheet) : sheet \in Sheets}, co \in BOOLEAN}

\* transactions sharing the code 1234, of no amount, of the amount of the
\* row, just inside its 10%, at its 10% and far from it
TieTxns ==
    [code : {<<"1","2","3","4">>}, amount : {None, 1000, 1099, 1100}, tx_type : {"deposit"},
     sender : {Ali}, is_locked : BOOLEAN]

\* the largest number of transactions sharing a code
MaxTieTxns == 2

\* match_receipts on one row of the code 1234 against transactions that all
\* carry it
TieCalls ==
    {[fn |-> "match_receipts",
      pdf_rows |-> <<LedgerRow(Cash, <<<<"1","2","3","4">>>>, Ali, credit, 0)>>,
      bank_txns |-> Numbered(ts),
      opts |-> [DefaultOpts EXCEPT !.credit_only = FALSE]] :
        ts \in SeqsUpTo(TieTxns, MaxTieTxns) \ SeqsUpTo(TieTxns, 1),
        credit \in {0, 1000, -1000}}

\* the largest number of rows of a ledger
MaxLedgerRows == 10

\* the rows of a ledger of n rows: the first k hold the code 1234, the last
\* j the code 5678
Ledger(n, k, j) ==
    [i \in 1..n |->
        LedgerRow(Cash,
                  (IF i <= k THEN <<<<"1","2","3","4">>>> ELSE <<>>)
                      \o (IF i > n - j THEN <<<<"5","6","7","8">>>> ELSE <<>>),
                  Ali, 1000, 0)]

\* the frequency pass on the rows extracted from a ledger
LedgerCalls ==
    {[fn |-> "FrequencyPass", rows_out |-> Ledger(shape[1], shape[2], shape[3]),
      holder |-> h] :
        shape \in {sh \in (0..MaxLedgerRows) \X (0..MaxLedgerRows) \X (0..2) :
                      sh[2] <= sh[1] /\ sh[3] <= sh[1]},
        h \in {{}, {<<"2","4","5","2">>}}}

\* transactions of the three directions, all of the code 1234, the sender
\* Ali and the amount 1000
DirectionTxns ==
    [code : {<<"1","2","3","4">>}, amount : {1000},
     tx_type : {"deposit", "withdrawal", "unknown"}, sender : {Ali}, is_locked : {FALSE}]

\* the largest number of transactions of a statement under the filter
MaxDirectionTxns == 2

\* match_receipts under each direction filter, by code and by name
DirectionCalls ==
    {[fn |-> "match_receipts",
      pdf_rows |-> <<LedgerRow(Cash, <<<<"1","2","3","4">>>>, Ali, 1000, 0)>>,
      bank_txns |-> Numbered(ts),
      opts |-> [DefaultOpts EXCEPT !.tx_type_filter = f, !.use_tracking = ut]] :
        ts \in SeqsUpTo(DirectionTxns, MaxDirectionTxns),
        f \in {"all", "deposit", "withdrawal"}, ut \in BOOLEAN}

\* header words
Tarikh == <<"t","a","r","y","kh">>
Sharh == <<"sh","r","hh">>
Variz == <<"v","a","r","y","z">>
Bardasht == <<"b","r","d","a","sh","t">>
Mablagh == <<"m","b","l","gh">>
Bestankar == <<"b","s","t","a","n","k","a","r">>
ShomareSanad == Shomare \o <<" ">> \o Sanad

\* rows of four cells that may stand where a header is looked for: plain
\* headers, rows of two categories, and rows with cells that match two
\* categories ("tarikh variz", "mablagh variz")
HeaderLikeRows ==
    {<<Tarikh, Sharh, Variz, ShomareSanad>>,
     <<Tarikh \o <<" ">> \o Variz, Variz, Tarikh, ShomareSanad>>,
     <<Tarikh, Sharh, <<>>, <<>>>>,
     <<Mablagh \o <<" ">> \o Variz, Mablagh \o <<" ">> \o Bardasht, Tarikh, <<>>>>,
     <<Variz, Tarikh \o <<" ">> \o Variz, Sharh, <<>>>>,
     <<Variz, Bestankar, Tarikh, <<>>>>,
     <<Variz \o <<" ">> \o Bardasht, Bardasht, Tarikh, <<>>>>}

\* the header that follows them, its columns in another order
SecondHeader == <<ShomareSanad, Tarikh, Sharh, Variz>>

\* rows above the header: a title, and a transaction the fallback reads (a
\* reference of ten digits and the amount 250000)
Title == <<<<"_a","_b","_c">>, <<>>, <<>>, <<>>>>
Loose == <<<<"0","0","0","0","0","0","1","2","3","4">>, Ali, <<"2","5","0","0","0","0">>, <<>>>>
Above == {Title, Loose}

\* the transaction below the headers
Below == <<<<"5","6","7","8">>, <<"1","4","0","4","/","0","1","/","0","1">>, Ali, <<"1","0","0","0","0">>>>

\* the largest number of rows above the first header-like row
MaxAbove == 21

\* parse_excel on grids of k rows, a header-like row, a header and a
\* transaction
GridCalls ==
    {[fn |-> "parse_excel", df_raw |-> Repeat(above, k) \o <<h, SecondHeader, Below>>] :
        above \in Above, k \in 0..MaxAbove, h \in HeaderLikeRows}

\* rows of the sender Ali: with the code of the transaction, with another
\* code and its amount, with another code and another amount, without codes
FlagRows ==
    {LedgerRow(Cash, <<<<"1","2","3","4">>>>, Ali, 1000, 0),
     LedgerRow(Cash, <<<<"4","3","2","1">>>>, Ali, 1000, 0),
     LedgerRow(Cash, <<<<"4","3","2","1">>>>, Ali, 2000, 0),
     LedgerRow(Cash, <<>>, Ali, 1000, 0)}

FlagTxns ==
    [code : {<<"1","2","3","4">>}, amount : {1000}, tx_type : {"deposit"},
     sender : {Ali}, is_locked : BOOLEAN]

\* the largest number of ledger rows and of transactions matched under the
\* options of the form
MaxFlagRows == 1
MaxFlagTxns == 1

\* match_receipts under every setting of its options
FlagCalls ==
    {[fn |-> "match_receipts", pdf_rows |-> rs, bank_txns |-> Numbered(ts), opts |-> o] :
        rs \in SeqsUpTo(FlagRows, MaxFlagRows), ts \in SeqsUpTo(FlagTxns, MaxFlagTxns),
        o \in Options}

\* rows of the code 1234 from two senders, and a row of another code
TwinRows ==
    {LedgerRow(Cash, <<<<"1","2","3","4">>>>, Ali, 1000, 0),
     LedgerRow(Cash, <<<<"1","2","3","4">>>>, AliReza, 1000, 0),
     LedgerRow(Cash, <<<<"4","3","2","1">>>>, Ali, 1000, 0)}

\* the largest number of ledger rows matched against one transaction
MaxTwinRows == 2

\* match_receipts on several rows against one transaction of the code 1234
TwinCalls ==
    {[fn |-> "match_receipts", pdf_rows |-> rs,
      bank_txns |-> Numbered(<<[code |-> <<"1","2","3","4">>, amount |-> 1000,
                                tx_type |-> "deposit", sender |-> Ali,
                                is_locked |-> locked]>>),
      opts |-> [DefaultOpts EXCEPT !.use_tracking = ut]] :
        rs \in SeqsUpTo(TwinRows, MaxTwinRows), locked \in BOOLEAN, ut \in BOOLEAN}

\* two numbers of eight digits with the same last four
LongLedgerCode == <<"9","9","9","9","5","6","7","8">>
LongBankCode == <<"1","1","1","1","5","6","7","8">>

\* transactions of either number, at the amount of the ledger row and far
\* from it; whole: last4 holds all the digits of the reference, as below a
\* header row, and not its last four, as on a sheet without one
LongTxns ==
    [code : {LongLedgerCode, LongBankCode}, amount : {1000, 5000}, whole : BOOLEAN]

\* the largest number of transactions of long codes
MaxLongTxns == 2

\* the transactions of the shapes, one sheet row each
LongNumbered(shapes) ==
    [n \in DOMAIN shapes |->
        [BankTxn(n + 1, shapes[n].code, shapes[n].amount, "deposit", Ali, FALSE)
            EXCEPT !.last4 = IF shapes[n].whole THEN shapes[n].code ELSE @]]

\* match_receipts of a row of the ledger number at amount 1000
SuffixCalls ==
    {[fn |-> "match_receipts",
      pdf_rows |-> <<LedgerRow(Cash, <<LongLedgerCode>>, Ali, 1000, 0)>>,
      bank_txns |-> LongNumbered(ts), opts |-> DefaultOpts] :
        ts \in SeqsUpTo(LongTxns, MaxLongTxns)}

\* the largest number of transactions of a short ledger
MaxShortRows == 10

\* the HTML ledger and the PDF ledger cut after their first n transactions
ShortHtml(n) == <<SubSeq(HtmlLedger[1], 1, n + 1)>>
ShortPdf(n) == <<SubSeq(PdfLedger[1], 1, 3 + 2 * n)>>

\* parse_html and parse_pdf on the short ledgers
ShortCalls ==
    {[fn |-> "parse_html", tables |-> ShortHtml(n)] : n \in 1..MaxShortRows}
    \cup {[fn |-> "parse_pdf", doc |-> ShortPdf(n)] : n \in 1..MaxShortRows}

\* the calls of a run
Calls ==
    GateCalls \cup GlyphCalls \cup LineCalls \cup DescCalls \cup SheetCalls \cup TieCalls
        \cup LedgerCalls \cup DirectionCalls \cup GridCalls \cup FlagCalls
        \cup TwinCalls \cup SuffixCalls \cup ShortCalls

InitCalls ==
    /\ ACCOUNT_HOLDER_CODES = {}
    /\ excel_file = <<>>
    /\ pdf_file = NoFile
    /\ pdf_rows = <<>>
    /\ bank_txns = <<>>
    /\ rows = <<>>
    /\ results = <<>>
    /\ opts = DefaultOpts
    /\ pc = "idle"
    /\ passes = 0
    /\ call \in Calls
    /\ ret = NoRet

\* match_receipts on the rows, transactions and options of the call
CallMatchReceipts ==
    /\ call.fn = "match_receipts"
    /\ ~ret.done
    /\ \E raised \in {Raises(KeptOf(call.pdf_rows, call.opts),
                               IndexedOf(call.bank_txns, call.opts))} :
          ret' = [done   |-> TRUE,
                  value  |-> IF raised THEN <<>>
                             ELSE match_receipts(call.pdf_rows, call.bank_txns, call.opts),
                  raised |-> raised]
    /\ UNCHANGED <<Service, call>>

\* parse_pdf, the repair of one digit run of a line
CallFixGlyphs ==
    /\ call.fn = "FixGlyphs"
    /\ ~ret.done
    /\ ret' = [done |-> TRUE, value |-> FixGlyphs(call.raw), raised |-> FALSE]
    /\ UNCHANGED <<Service, call>>

\* parse_pdf, the body of its loop for one assembled line of page 1
CallPdfRow ==
    /\ call.fn = "PdfRow"
    /\ ~ret.done
    /\ ret' = [done |-> TRUE, value |-> PdfRow(call.line, 1, {}), raised |-> FALSE]
    /\ UNCHANGED <<Service, call>>

\* parse_desc on the description, ACCOUNT_HOLDER_CODES being call.holder
CallParseDesc ==
    /\ call.fn = "parse_desc"
    /\ ~ret.done
    /\ ret' = [done |-> TRUE, value |-> parse_desc(call.desc, call.holder), raised |-> FALSE]
    /\ UNCHANGED <<Service, call>>

\* parse_pdf and parse_html, the frequency pass over the extracted rows
CallFrequencyPass ==
    /\ call.fn = "FrequencyPass"
    /\ ~ret.done
    /\ ret' = [done |-> TRUE, value |-> FrequencyPass(call.rows_out, call.holder),
               raised |-> FALSE]
    /\ UNCHANGED <<Service, call>>

\* parse_excel on the grid, with the header row and the mapping it settled on
CallParseExcel ==
    /\ call.fn = "parse_excel"
    /\ ~ret.done
    /\ \E header_idx \in {HeaderIdx(call.df_raw)} :
          ret' = [done   |-> TRUE,
                  value  |-> [header_idx |-> header_idx,
                              col_map    |-> IF header_idx >= 0
                                             THEN RowColMap(call.df_raw[header_idx + 1])
                                             ELSE EmptyMap,
                              txns       |-> RowsBelow(call.df_raw, header_idx)],
                  raised |-> FALSE]
    /\ UNCHANGED <<Service, call>>

\* parse_html on the tables of the document, ACCOUNT_HOLDER_CODES being empty
CallParseHtml ==
    /\ call.fn = "parse_html"
    /\ ~ret.done
    /\ ret' = [done |-> TRUE, value |-> parse_html(call.tables, {}), raised |-> FALSE]
    /\ UNCHANGED <<Service, call>>

\* parse_pdf on the document
CallParsePdf ==
    /\ call.fn = "parse_pdf"
    /\ ~ret.done
    /\ ret' = [done |-> TRUE, value |-> parse_pdf(call.doc), raised |-> FALSE]
    /\ UNCHANGED <<Service, call>>

NextCalls ==
    \/ CallParseHtml
    \/ CallParsePdf
    \/ CallParseExcel
    \/ CallMatchReceipts
    \/ CallFixGlyphs
    \/ CallPdfRow
    \/ CallParseDesc
    \/ CallFrequencyPass

SpecCalls == InitCalls /\ [][NextCalls]_vars


(***************************************************************************)
(* Properties of one request, stated over what the request read and        *)
(* returned; results[i] is the result of rows[i]                           *)
(***************************************************************************)
\* the transaction passes the direction filter of the request
PassesDirection(tx) ==
    opts.tx_type_filter = "all" \/ tx.tx_type \in {"unknown", opts.tx_type_filter}

\* the transactions of the statement that pass the direction filter
Passing == {n \in DOMAIN bank_txns : PassesDirection(bank_txns[n])}

\* the row numbers of the transactions the code index holds under key k
Hits(k) ==
    {bank_txns[n].row_num :
        n \in {x \in Passing :
                  \E c \in bank_txns[x].all_codes \cup {bank_txns[x].last4} :
                      c # <<>> /\ (c = k \/ (Len(c) > 4 /\ LastN(c, 4) = k))}}

\* the code index yields a candidate for the code, by its full value or, for
\* a code longer than 4, by its last four digits
AnyHit(code) ==
    Len(code) >= 4 /\ (Hits(code) # {} \/ (Len(code) > 4 /\ Hits(LastN(code, 4)) # {}))

\* tier 1 finds nothing for the ledger row
NoCodeCandidate(row) ==
    ~opts.use_tracking \/ \A j \in DOMAIN row.codes : ~AnyHit(row.codes[j])

\* the keys the sender index holds the transaction under
KeysOf(tx) == {k \in {nrm(tx.sender), nrm(tx.desc)} : Len(k) >= 3}

\* the keys of the sender index, by transaction
SenderIndex == [n \in DOMAIN bank_txns |-> KeysOf(bank_txns[n])]

\* the sender key of a ledger row selects index key k: the same key, or one
\* containing the other
Related(skey, k) ==
    k = skey \/ (Len(skey) >= 3 /\ (Contains(skey, k) \/ Contains(k, skey)))

\* |bank amount - ledger amount| < 5% of the ledger amount
StrictlyWithin5(tx, amount) ==
    /\ tx.amount # None /\ tx.amount # 0
    /\ 20 * Abs(tx.amount - amount) < amount

\* the bank amount is off the ledger amount by 5% of it exactly
ExactlyAt5(tx, amount) ==
    /\ tx.amount # None /\ amount > 0
    /\ 20 * Abs(tx.amount - amount) = amount

\* tier 2 is tried for the ledger row
Tier2Tried(row) ==
    /\ opts.use_name /\ row.sender # <<>> /\ row.codes # <<>>
    /\ (IF row.credit # 0 THEN row.credit ELSE row.debit) # 0

\* the bank transaction of a result that found one
MatchedTx(res) ==
    bank_txns[CHOOSE n \in DOMAIN bank_txns : bank_txns[n].row_num = res.bank_row]

\* C1: whenever the bank transaction selected for a ledger row is locked the
\* result's status is duplicate, and a result is duplicate only if its
\* transaction is locked -- for every ledger row and every combination of
\* options.
C1_LockedIffDuplicate ==
    pc = "matched" =>
        \A i \in DOMAIN results :
            /\ results[i].status = "duplicate" => results[i].found
            /\ results[i].found =>
                  /\ \E n \in DOMAIN bank_txns :
                        bank_txns[n].row_num = results[i].bank_row
                  /\ MatchedTx(results[i]).is_locked
                        <=> results[i].status = "duplicate"

\* C1, its case: one request reports a duplicate for a locked transaction and
\* an exact match for an unlocked one
C1_Witness ==
    /\ pc = "matched"
    /\ \E i \in DOMAIN results :
          results[i].status = "duplicate" /\ MatchedTx(results[i]).is_locked
    /\ \E i \in DOMAIN results :
          results[i].status = "exact" /\ ~MatchedTx(results[i]).is_locked

\* the code at position j of the row resolves to one transaction by its full
\* value and to another one by its last four digits
FullAndSuffix(row, j) ==
    /\ Len(row.codes[j]) > 4
    /\ Cardinality(Hits(row.codes[j])) = 1
    /\ Hits(LastN(row.codes[j], 4)) \ Hits(row.codes[j]) # {}

\* C2 as stated: with tracking enabled, a ledger row with a code longer than
\* 4 that resolves to one transaction by its full value and to a different
\* one by its last four digits is matched to the transaction of the full
\* code.
C2_FullCodeWins ==
    (pc = "matched" /\ opts.use_tracking) =>
        \A i \in DOMAIN results : \A j \in DOMAIN rows[i].codes :
            FullAndSuffix(rows[i], j) =>
                /\ results[i].found
                /\ {results[i].bank_row} = Hits(rows[i].codes[j])

\* C2, amended: with tracking enabled, a ledger row with a code longer than 4
\* that resolves to one transaction by its full value and to a different one
\* by its last four digits is matched to the transaction of the full code,
\* when no code before it in the row's list of codes yields a candidate.
C2_FullCodeWinsWhenFirst ==
    (pc = "matched" /\ opts.use_tracking) =>
        \A i \in DOMAIN results : \A j \in DOMAIN rows[i].codes :
            (/\ FullAndSuffix(rows[i], j)
             /\ \A k \in 1..(j - 1) : ~AnyHit(rows[i].codes[k])) =>
                /\ results[i].found
                /\ {results[i].bank_row} = Hits(rows[i].codes[j])

\* C2, its case: a row is matched to the transaction of its full code while
\* another transaction carries the code's last four digits
C2_Witness ==
    /\ pc = "matched" /\ opts.use_tracking
    /\ \E i \in DOMAIN results : \E j \in DOMAIN rows[i].codes :
          /\ FullAndSuffix(rows[i], j)
          /\ \A k \in 1..(j - 1) : ~AnyHit(rows[i].codes[k])
          /\ {results[i].bank_row} = Hits(rows[i].codes[j])

\* the tolerance of tier 2 for one ledger row with sender key skey and its
\* result, keys being the sender index
Tier2StrictAt(row, res, skey, keys) ==
    /\ res.status = "review" => StrictlyWithin5(MatchedTx(res), res.amount)
    /\ (/\ NoCodeCandidate(row)
        /\ Tier2Tried(row)
        /\ \E n \in Passing :
              skey \in keys[n] /\ StrictlyWithin5(bank_txns[n], res.amount))
          => res.status \in {"review", "duplicate"}
    /\ (/\ NoCodeCandidate(row)
        /\ \A n \in Passing : \A k \in keys[n] :
              Related(skey, k) => ~StrictlyWithin5(bank_txns[n], res.amount))
          => res.status = "not_found"

\* C3: the tolerance of tier 2 is strict.  A result of status review has a
\* transaction whose amount is off by less than 5% of the ledger amount; a
\* row tier 1 finds nothing for, with a transaction under its sender key off
\* by less than 5%, is matched as review or duplicate; and such a row is not
\* matched when every transaction its sender selects is off by 5% or more.
C3_Tier2Strict ==
    pc = "matched" =>
        \A keys \in {SenderIndex} : \A i \in DOMAIN results :
            \A skey \in {nrm(rows[i].sender)} :
                Tier2StrictAt(rows[i], results[i], skey, keys)

\* C3, its case: in one request a row is matched as review to a transaction
\* off by the largest amount below 5%, and a row whose sender's transaction
\* is off by 5% exactly is not matched
C3_Witness ==
    /\ pc = "matched"
    /\ \E i \in DOMAIN results :
          /\ results[i].status = "review"
          /\ 20 * (Abs(MatchedTx(results[i]).amount - results[i].amount) + 1)
                >= results[i].amount
    /\ \E i \in DOMAIN results :
          /\ results[i].status = "not_found"
          /\ Tier2Tried(rows[i])
          /\ \E n \in Passing :
                /\ ExactlyAt5(bank_txns[n], results[i].amount)
                /\ nrm(rows[i].sender) \in KeysOf(bank_txns[n])

\* the next request over the workbook this request saves, with the same
\* ledger rows and options: its transactions and its results
LaterTxns == parse_excel(LockedExcel(excel_file, bank_txns, results, LedgerStem))

LaterResults(later_txns) == Results(rows, IndexedOf(later_txns, opts), opts)

\* row N of the later request is locked and result i of it is duplicate
LaterDuplicate(later_txns, later_results, i) ==
    /\ \E n \in DOMAIN later_txns :
          later_txns[n].row_num = results[i].bank_row /\ later_txns[n].is_locked
    /\ later_results[i].status = "duplicate"

\* C4 as stated: a ledger row matched as exact or review to bank row N, the
\* marker written into row N, is reported as duplicate by a later request
\* over the marked workbook with the same ledger rows and options, and
\* parse_excel returns row N locked.
C4_RematchIsDuplicate ==
    (pc = "matched" /\ \E i \in DOMAIN results : results[i].status \in {"exact", "review"}) =>
        \A later_txns \in {LaterTxns} :
            \A later_results \in {LaterResults(later_txns)} :
                \A i \in DOMAIN results :
                    results[i].status \in {"exact", "review"} =>
                        LaterDuplicate(later_txns, later_results, i)

\* the rows the parser returns for the upload when it is the first one the
\* process parses
FreshRows ==
    IF pdf_file.kind = "pdf" THEN parse_pdf(pdf_file.doc).rows
    ELSE parse_html(pdf_file.doc, {}).rows

\* C5 as stated: the ledger rows a parse returns depend on its input alone;
\* they are the rows it returns as the first parse of the process.
C5_NoLeakAcrossParses ==
    pc = "ledger" => pdf_rows = FreshRows

\* C6: on return from parse_pdf or parse_html no code of the holder set is
\* among the codes of a returned ledger row.
C6_HolderCodesStripped ==
    pc = "ledger" =>
        \A i \in DOMAIN pdf_rows :
            \A j \in DOMAIN pdf_rows[i].codes :
                pdf_rows[i].codes[j] \notin ACCOUNT_HOLDER_CODES

\* C6, its case: a holder code stands in the description of two returned
\* rows, so it was extracted and stripped
C6_Witness ==
    /\ pc = "ledger"
    /\ \E c \in ACCOUNT_HOLDER_CODES : \E i, j \in DOMAIN pdf_rows :
          i < j /\ Contains(pdf_rows[i].desc, c) /\ Contains(pdf_rows[j].desc, c)

\* the text of grid row n, digits in ASCII
RowText(n) == FA_DIGITS(Join(<<" ">>, excel_file[n]))

\* the transaction is read from grid row tx.row_num: its reference, its
\* description and its marker are those of that row
FromItsRow(tx, text) ==
    /\ Contains(text, FA_DIGITS(tx.ref))
    /\ Contains(text, FA_DIGITS(tx.desc))
    /\ tx.is_locked <=> Contains(text, LockMarker)

\* C7: every transaction parse_excel returns carries as row_num the 1-based
\* position of its source row in the grid, rows above and between counted,
\* and row_num increases strictly along the list, so no two transactions
\* share one.
C7_RowNumIsGridPosition ==
    pc = "bank" =>
        /\ \A n \in DOMAIN bank_txns :
              /\ bank_txns[n].row_num \in 1..Len(excel_file)
              /\ FromItsRow(bank_txns[n], RowText(bank_txns[n].row_num))
        /\ \A n \in DOMAIN bank_txns : \A m \in DOMAIN bank_txns :
              n < m => bank_txns[n].row_num < bank_txns[m].row_num

\* C7, its case: the first transaction lies below a title and a header row,
\* and a discarded row lies between two transactions
C7_Witness ==
    /\ pc = "bank"
    /\ Len(bank_txns) >= 2
    /\ bank_txns[1].row_num >= 3
    /\ \E n \in 1..(Len(bank_txns) - 1) :
          bank_txns[n + 1].row_num > bank_txns[n].row_num + 1

\* C8: every result has one of the four statuses; found is false exactly
\* when the status is not_found, and then bank_ref, bank_date and bank_row
\* are empty; a found result carries the row_num of a transaction of the
\* statement that passes the direction filter.
C8_ResultConsistent ==
    pc = "matched" =>
        \A i \in DOMAIN results :
            /\ results[i].status \in {"exact", "review", "duplicate", "not_found"}
            /\ results[i].found \in BOOLEAN
            /\ ~results[i].found <=> results[i].status = "not_found"
            /\ ~results[i].found =>
                  /\ results[i].bank_ref = <<>>
                  /\ results[i].bank_date = <<>>
                  /\ results[i].bank_row = NoRow
            /\ results[i].found =>
                  \E n \in Passing : results[i].bank_row = bank_txns[n].row_num

\* C8, its case: under a direction filter one row is matched and another is
\* not found although a transaction the filter removes carries its code
C8_Witness ==
    /\ pc = "matched" /\ opts.tx_type_filter # "all" /\ opts.use_tracking
    /\ \E i \in DOMAIN results : results[i].found
    /\ \E i \in DOMAIN results :
          /\ ~results[i].found
          /\ \E n \in DOMAIN bank_txns \ Passing :
                bank_txns[n].ref \in Range(rows[i].codes)

\* C9 as stated: every ledger row a parser returns has amount >= 0, equal to
\* whichever of credit and debit is nonzero.
C9_AmountNonNegative ==
    pc = "ledger" =>
        \A i \in DOMAIN pdf_rows :
            /\ pdf_rows[i].amount >= 0
            /\ (pdf_rows[i].credit # 0 /\ pdf_rows[i].debit = 0)
                  => pdf_rows[i].amount = pdf_rows[i].credit
            /\ (pdf_rows[i].debit # 0 /\ pdf_rows[i].credit = 0)
                  => pdf_rows[i].amount = pdf_rows[i].debit

\* the code index yields the result's transaction for a code of the row
ByCode(row, res) ==
    /\ opts.use_tracking
    /\ \E j \in DOMAIN row.codes :
          /\ Len(row.codes[j]) >= 4
          /\ res.bank_row \in Hits(row.codes[j]) \cup Hits(LastN(row.codes[j], 4))

\* the sender index holds the result's transaction under a key the row's
\* sender selects
BySender(row, res) ==
    /\ Tier2Tried(row)
    /\ \E skey \in {nrm(row.sender)} : \E k \in KeysOf(MatchedTx(res)) :
          Related(skey, k)

\* C10: no match is made on the amount alone.  The transaction of a found
\* result is one the code index yields for a code of the row or one the
\* sender index holds under a key the row's sender selects; a row with
\* neither is not_found, whatever amounts the statement holds.
C10_NoAmountFallback ==
    pc = "matched" =>
        \A i \in DOMAIN results :
            results[i].found => (ByCode(rows[i], results[i]) \/ BySender(rows[i], results[i]))

\* C10, its case: a row is not found while a transaction of the statement
\* has exactly its amount
C10_Witness ==
    /\ pc = "matched"
    /\ \E i \in DOMAIN results :
          /\ results[i].status = "not_found"
          /\ results[i].amount > 0
          /\ \E n \in Passing : bank_txns[n].amount = results[i].amount

(***************************************************************************)
(* Properties of one call of a function, stated over the arguments of the  *)
(* call and what it returned                                               *)
(***************************************************************************)
\* match_receipts has returned
Matched == call.fn = "match_receipts" /\ ret.done /\ ~ret.raised

\* the transaction passes the direction filter of the call
CallPasses(tx) ==
    call.opts.tx_type_filter = "all" \/ tx.tx_type \in {"unknown", call.opts.tx_type_filter}

\* the transactions of the call the code index holds under key k
CallHits(k) ==
    {n \in DOMAIN call.bank_txns :
        /\ CallPasses(call.bank_txns[n])
        /\ \E c \in call.bank_txns[n].all_codes \cup {call.bank_txns[n].last4} :
              c # <<>> /\ (c = k \/ (Len(c) > 4 /\ LastN(c, 4) = k))}

\* the code index yields a candidate for the code
CallAnyHit(code) ==
    Len(code) >= 4
    /\ (CallHits(code) # {} \/ (Len(code) > 4 /\ CallHits(LastN(code, 4)) # {}))

\* C11: tier 2 is tried only with use_name set, for a row with a code, a
\* sender and an amount that tier 1 found nothing for.  A result of status
\* review belongs to such a row, and a row without codes is not_found,
\* whatever its sender and amount.
C11_Tier2NeedsCodes ==
    Matched =>
        \A kept \in {KeptOf(call.pdf_rows, call.opts)} :
            /\ Len(kept) = Len(ret.value)
            /\ \A i \in DOMAIN ret.value :
                  /\ kept[i].codes = <<>> =>
                        ret.value[i].status = "not_found" /\ ~ret.value[i].found
                  /\ ret.value[i].status = "review" =>
                        /\ call.opts.use_name
                        /\ kept[i].codes # <<>>
                        /\ kept[i].sender # <<>>
                        /\ ret.value[i].amount # 0
                        /\ ~call.opts.use_tracking
                              \/ \A j \in DOMAIN kept[i].codes : ~CallAnyHit(kept[i].codes[j])

\* C11, its case: with use_name set a row without codes is not_found while a
\* transaction of the statement has its sender and its amount
C11_Witness ==
    /\ Matched /\ call.opts.use_name
    /\ \E i \in DOMAIN ret.value :
          /\ ret.value[i].codes = <<>>
          /\ ret.value[i].sender # <<>>
          /\ ret.value[i].status = "not_found"
          /\ \E n \in DOMAIN call.bank_txns :
                /\ call.bank_txns[n].sender = ret.value[i].sender
                /\ call.bank_txns[n].amount = ret.value[i].amount

\* how many 2s the digit run ends in
TrailingTwos(raw) ==
    Cardinality({k \in 1..Len(raw) : \A j \in k..Len(raw) : raw[j] = "2"})

\* C12: a digit run of more than 6 digits that ends in two or more 2s has
\* exactly its trailing run of 2s replaced by as many 0s, the digits before
\* it unchanged; a run of 6 digits or fewer, or one ending in a single 2, is
\* left as it is.
C12_GlyphRepair ==
    (call.fn = "FixGlyphs" /\ ret.done) =>
        /\ Len(ret.value) = Len(call.raw)
        /\ IF Len(call.raw) > 6 /\ TrailingTwos(call.raw) >= 2
           THEN \A k \in 1..Len(call.raw) :
                   ret.value[k] = IF k > Len(call.raw) - TrailingTwos(call.raw)
                                  THEN "0" ELSE call.raw[k]
           ELSE ret.value = call.raw

\* C12, its case: the run 123456722 is repaired to 123456700
C12_Witness ==
    /\ call.fn = "FixGlyphs" /\ ret.done
    /\ call.raw = <<"1","2","3","4","5","6","7","2","2">>
    /\ ret.value = <<"1","2","3","4","5","6","7","0","0">>

\* the values of the amount candidates of the line, in the order printed
Candidates(tokens) ==
    LET kept == Filter(LAMBDA t : t.kept, tokens)
    IN  [k \in DOMAIN kept |-> kept[k].value]

\* the second of the values counted from the largest, equal values counted
\* one by one
SecondLargest(vals) ==
    LET top == CHOOSE i \in DOMAIN vals : \A j \in DOMAIN vals : vals[i] >= vals[j]
    IN  Greatest({vals[j] : j \in DOMAIN vals \ {top}})

\* the values <<a, b, ...>> are the candidates of the line of the call
LineWith(vals) ==
    call.fn = "PdfRow" /\ ret.done /\ Candidates(call.tokens) = vals

\* C13: a line with two or more amount candidates gives a row whose credit
\* is the second largest of them, counted by position; a line with one gives
\* a row with that credit; a line with none gives no row.
C13_SecondLargestIsCredit ==
    (call.fn = "PdfRow" /\ ret.done) =>
        \A vals \in {Candidates(call.tokens)} :
            /\ ret.value.skip <=> vals = <<>>
            /\ Len(vals) = 1 => ret.value.credit = vals[1]
            /\ Len(vals) >= 2 => ret.value.credit = SecondLargest(vals)

\* C13, its case: a line of three candidates, the largest printed twice,
\* gives a row whose credit is that largest value
C13_Witness ==
    /\ call.fn = "PdfRow" /\ ret.done
    /\ \E vals \in {Candidates(call.tokens)} :
          /\ Len(vals) = 3
          /\ Cardinality({k \in DOMAIN vals : vals[k] = Greatest(Range(vals))}) = 2
          /\ ~ret.value.skip
          /\ ret.value.credit = Greatest(Range(vals))

\* C14 as stated: the candidates [50000, 1200000, 999999] give credit =
\* 1200000, and the single candidate [750000] gives credit = 750000.
C14_ExampleCredits ==
    /\ LineWith(<<50000, 1200000, 999999>>) => ret.value.credit = 1200000
    /\ LineWith(<<750000>>) => ret.value.credit = 750000

\* C14, amended: the candidates [50000, 1200000, 999999] give credit = 999999,
\* the second largest, and the single candidate [750000] gives credit =
\* 750000.
C14_ExampleSecondLargest ==
    /\ LineWith(<<50000, 1200000, 999999>>) =>
          ~ret.value.skip /\ ret.value.credit = 999999
    /\ LineWith(<<750000>>) =>
          ~ret.value.skip /\ ret.value.credit = 750000

\* C14, its case: the line of 50000, 1200000 and 999999 has given its row
C14_Witness ==
    /\ LineWith(<<50000, 1200000, 999999>>)
    /\ ret.value.credit = 999999

\* what each pattern of parse_desc finds in the text
RuleCodes(desc_n) ==
    {NameSlashCode(desc_n), CodeSlashName(desc_n), CodeBeforeBracket(desc_n),
     CodesInBrackets(desc_n), CodeAfterBracket(desc_n), CodeBetweenBars(desc_n),
     CodeAtEnd(desc_n), CodesInChains(desc_n)}

\* the description "[saderat,24454] khedmati/2452" parsed with an empty
\* holder set
BracketAndSlash ==
    /\ call.fn = "parse_desc" /\ ret.done
    /\ call.desc = Bracket24454 \o <<" ">> \o NameSlash2452
    /\ call.holder = {}

\* C15: parse_desc returns the union of the codes of all its patterns less
\* the holder set: the codes each pattern finds and the codes of each piece
\* of the description are returned unless they are holder codes, and no
\* holder code is.  "[saderat,24454] khedmati/2452" gives the codes 24454 and
\* 2452 and the sender khedmati.
C15_CodesOfAllRules ==
    (call.fn = "parse_desc" /\ ret.done) =>
        \A codes \in {Range(ret.value.codes)} :
            /\ \A found \in RuleCodes(FA_DIGITS(call.desc)) :
                  found \ call.holder \subseteq codes
            /\ \A k \in DOMAIN call.fragments :
                  call.fragments[k].codes \ call.holder \subseteq codes
            /\ codes \cap call.holder = {}
            /\ Len(ret.value.codes) = Cardinality(codes)
            /\ BracketAndSlash =>
                  /\ codes = {<<"2","4","4","5","4">>, <<"2","4","5","2">>}
                  /\ ret.value.sender = <<"kh","d","m","t","y">>

\* C15, its case: the bracketed code and the code after the slash are both
\* returned
C15_Witness ==
    /\ BracketAndSlash
    /\ Range(ret.value.codes) = {<<"2","4","4","5","4">>, <<"2","4","5","2">>}

\* C16: match_receipts never fails for data reasons: it returns one result
\* for each ledger row the pre-filter keeps, in the order of the ledger and
\* numbered from 1, and the result of a row without a match is not_found.
C16_NeverFails ==
    (call.fn = "match_receipts" /\ ret.done) =>
        /\ ~ret.raised
        /\ \A kept \in {KeptOf(call.pdf_rows, call.opts)} :
              /\ Len(ret.value) = Len(kept)
              /\ \A i \in DOMAIN ret.value :
                    /\ ret.value[i].idx = i
                    /\ ret.value[i].desc = kept[i].desc
                    /\ ret.value[i].codes = Join(<<",", " ">>, kept[i].codes)
                    /\ ret.value[i].sender = kept[i].sender
                    /\ ~ret.value[i].found => ret.value[i].status = "not_found"

\* the search code tier 1 stops at for the codes of a row: the first code, in
\* the order of the row, and of it the first of the full code and its last
\* four digits, that the code index holds; <<>> when there is none
RECURSIVE StopCode(_)
StopCode(codes) ==
    IF codes = <<>> THEN <<>>
    ELSE IF Len(Head(codes)) >= 4 /\ CallHits(Head(codes)) # {} THEN Head(codes)
    ELSE IF Len(Head(codes)) > 4 /\ CallHits(LastN(Head(codes), 4)) # {}
    THEN LastN(Head(codes), 4)
    ELSE StopCode(Tail(codes))

\* the candidates whose amount is within 10% of the amount of the row
Inside10(cands, amount) ==
    {n \in cands :
        /\ call.bank_txns[n].amount \notin {None, 0}
        /\ 10 * Abs(call.bank_txns[n].amount - amount) < amount}

\* the candidates the choice is made from
Chosen(cands, amount) ==
    IF amount # 0 /\ Inside10(cands, amount) # {} THEN Inside10(cands, amount) ELSE cands

\* the first locked member of the set in bank order, else its first member
Preferred(chosen) ==
    IF \E n \in chosen : call.bank_txns[n].is_locked
    THEN Least({n \in chosen : call.bank_txns[n].is_locked})
    ELSE Least(chosen)

\* the row of result i has several candidates under the code tier 1 stops at
Tied(i, kept) ==
    /\ call.opts.use_tracking
    /\ StopCode(kept[i].codes) # <<>>
    /\ Cardinality(CallHits(StopCode(kept[i].codes))) > 1

\* C17: when the first code of a row that yields candidates yields several,
\* the choice is made among the candidates whose amount is within 10% of the
\* row's if the row has a nonzero amount and there are such candidates, and
\* among all of them otherwise; the matched transaction is the first locked
\* one of these, or the first of them in bank order when none is locked.  No
\* candidate outside the tolerance is matched while one is inside.
C17_Disambiguation ==
    Matched =>
        \A kept \in {KeptOf(call.pdf_rows, call.opts)} :
            \A i \in DOMAIN ret.value :
                Tied(i, kept) =>
                    \A cands \in {CallHits(StopCode(kept[i].codes))} :
                        /\ ret.value[i].found
                        /\ ret.value[i].bank_row
                              = call.bank_txns[Preferred(Chosen(cands, ret.value[i].amount))].row_num
                        /\ Inside10(cands, ret.value[i].amount) # {} =>
                              \E n \in Inside10(cands, ret.value[i].amount) :
                                  ret.value[i].bank_row = call.bank_txns[n].row_num

\* C17, its case: the second candidate is matched, being within the
\* tolerance while the first one is not
C17_Witness ==
    /\ Matched
    /\ Len(ret.value) = 1 /\ Len(call.bank_txns) >= 2
    /\ Tied(1, KeptOf(call.pdf_rows, call.opts))
    /\ call.bank_txns[1].amount = 1100
    /\ call.bank_txns[2].amount = 1099
    /\ ret.value[1].amount = 1000
    /\ ret.value[1].bank_row = call.bank_txns[2].row_num

\* the number of extracted rows that hold the code
RECURSIVE RowsWith(_, _)
RowsWith(rows_out, c) ==
    IF rows_out = <<>> THEN 0
    ELSE (IF \E k \in DOMAIN Head(rows_out).codes : Head(rows_out).codes[k] = c
          THEN 1 ELSE 0) + RowsWith(Tail(rows_out), c)

\* the codes of the extracted rows
CodesOf(rows_out) == UNION {Range(rows_out[i].codes) : i \in DOMAIN rows_out}

OtherDirection(tx) ==
    /\ call.opts.tx_type_filter \in {"deposit", "withdrawal"}
    /\ tx.tx_type \in {"deposit", "withdrawal"}
    /\ tx.tx_type # call.opts.tx_type_filter

\* the transactions of the call that result res is matched to
MatchedTxns(res) == {n \in DOMAIN call.bank_txns : call.bank_txns[n].row_num = res.bank_row}

\* the transactions of the call found in the code index and the sender index
InIndexes ==
    LET txns == IndexedOf(call.bank_txns, call.opts)
        entries == SenderEntries(txns)
    IN  {n \in DOMAIN call.bank_txns :
            \/ \E m \in DOMAIN call.bank_txns :
                  \E k \in TxCodes(call.bank_txns[m]) :
                      call.bank_txns[n] \in Range(by_last4(txns, k))
            \/ \E e \in DOMAIN entries : entries[e][2] = call.bank_txns[n]}

\* the transaction has the code and the sender of the ledger row of result res
SameCodeAndSender(tx, res) ==
    /\ tx.last4 # <<>> /\ tx.last4 = res.codes
    /\ tx.sender = res.sender
    /\ tx.amount = res.amount

\* C19: under the filter deposit or withdrawal a transaction of the other
\* direction is in no index and is the matched transaction of no result; a
\* transaction of unknown direction is indexed and matched under every
\* filter; under the filter all no transaction is left out.
C19_DirectionFilter ==
    Matched =>
        \A indexed \in {InIndexes} :
            /\ \A n \in DOMAIN call.bank_txns :
                  /\ OtherDirection(call.bank_txns[n]) =>
                        /\ n \notin indexed
                        /\ \A i \in DOMAIN ret.value :
                              ret.value[i].found => n \notin MatchedTxns(ret.value[i])
                  /\ (~OtherDirection(call.bank_txns[n])
                         /\ TxCodes(call.bank_txns[n]) # {}) => n \in indexed
            /\ \A i \in DOMAIN ret.value :
                  (\E n \in DOMAIN call.bank_txns :
                      /\ SameCodeAndSender(call.bank_txns[n], ret.value[i])
                      /\ \/ call.bank_txns[n].tx_type = "unknown"
                         \/ call.opts.tx_type_filter = "all")
                  => /\ call.opts.use_tracking \/ call.opts.use_name
                        => ret.value[i].found
                     /\ ret.value[i].found =>
                           \A n \in MatchedTxns(ret.value[i]) :
                               ~OtherDirection(call.bank_txns[n])

\* C19, its case: under the filter deposit the row is matched to the
\* transaction of unknown direction that follows a withdrawal of the same
\* code, sender and amount
C19_Witness ==
    /\ Matched
    /\ call.opts.tx_type_filter = "deposit"
    /\ Len(call.bank_txns) = 2 /\ Len(ret.value) = 1
    /\ call.bank_txns[1].tx_type = "withdrawal"
    /\ call.bank_txns[2].tx_type = "unknown"
    /\ SameCodeAndSender(call.bank_txns[1], ret.value[1])
    /\ ret.value[1].found
    /\ ret.value[1].bank_row = call.bank_txns[2].row_num

\* parse_excel has returned
Parsed == call.fn = "parse_excel" /\ ret.done

\* the six categories, in the order the scan tries them
Categories == <<"credit", "debit", "amount", "date", "desc", "ref">>

\* the pattern of the category is found in the cell
Matches(cat, cell) ==
    \/ cat = "credit" /\ SearchCredit(Strip(cell))
    \/ cat = "debit" /\ SearchDebit(Strip(cell))
    \/ cat = "amount" /\ SearchAmount(Strip(cell))
    \/ cat = "date" /\ SearchDate(Strip(cell))
    \/ cat = "desc" /\ SearchDesc(Strip(cell))
    \/ cat = "ref" /\ SearchRef(Strip(cell))

\* every category of the mapping has one column, no column has two
\* categories
OneToOne(row, tmp) ==
    /\ DOMAIN tmp \subseteq Range(Categories)
    /\ \A cat \in DOMAIN tmp : tmp[cat] \in DOMAIN row /\ Matches(cat, row[tmp[cat]])
    /\ \A cat \in DOMAIN tmp : \A other \in DOMAIN tmp : tmp[cat] = tmp[other] => cat = other

\* every category of the mapping has the first cell of the row that matches it
FirstMatching(row, tmp) ==
    \A cat \in DOMAIN tmp : \A ci \in DOMAIN row : Matches(cat, row[ci]) => tmp[cat] <= ci

\* the categories cell ci matches that no cell before it has claimed, by
\* their places in the order of the scan
Open(row, tmp, ci) ==
    {k \in DOMAIN Categories :
        /\ Matches(Categories[k], row[ci])
        /\ ~(Categories[k] \in DOMAIN tmp /\ tmp[Categories[k]] < ci)}

\* every cell claims the first category in the order of the scan that it
\* matches and that no cell before it has claimed, and no other
FirstOpen(row, tmp) ==
    \A ci \in DOMAIN row :
        \A open \in {Open(row, tmp, ci)} :
            \A k \in DOMAIN Categories :
                (Categories[k] \in DOMAIN tmp /\ tmp[Categories[k]] = ci)
                    <=> (open # {} /\ k = Least(open))

\* the rows of the grid that are scanned, 0-based
Scanned == 0..(Min(20, Len(call.df_raw)) - 1)

\* the hits of a row of the grid
Score(ri) == Cardinality(DOMAIN RowColMap(call.df_raw[ri + 1]))

\* the header is the first scanned row of three hits, the rows below it are
\* read through its mapping; without such a row every row is read by the
\* fallback
HeaderOrFallback ==
    \A header_idx \in {ret.value.header_idx} :
        /\ header_idx \in Scanned \cup {0 - 1}
        /\ header_idx >= 0 =>
              /\ Score(header_idx) >= 3
              /\ \A ri \in Scanned : ri < header_idx => Score(ri) < 3
              /\ ret.value.col_map = RowColMap(call.df_raw[header_idx + 1])
              /\ \A n \in DOMAIN ret.value.txns :
                    \A tx \in {ret.value.txns[n]} :
                        /\ tx.row_num \in (header_idx + 2)..Len(call.df_raw)
                        /\ "ref" \in DOMAIN ret.value.col_map =>
                              tx.ref = Strip(call.df_raw[tx.row_num][ret.value.col_map["ref"]])
                        /\ "date" \in DOMAIN ret.value.col_map =>
                              tx.date = Strip(call.df_raw[tx.row_num][ret.value.col_map["date"]])
        /\ header_idx < 0 =>
              /\ \A ri \in Scanned : Score(ri) < 3
              /\ \A n \in DOMAIN ret.value.txns : ret.value.txns[n].date = <<>>
              /\ \A ri \in DOMAIN call.df_raw :
                    call.df_raw[ri] = Loose =>
                        \E n \in DOMAIN ret.value.txns :
                            /\ ret.value.txns[n].row_num = ri
                            /\ ret.value.txns[n].amount = 250000

\* C20: parse_excel scans the first 20 rows of the grid; in a row a cell
\* counts for at most one category and each of the six categories is claimed
\* by at most one column, the first cell that matches it; the header is the
\* first scanned row of at least 3 hits and the rows after it are read
\* through its mapping; when no scanned row has 3 hits every row is read by
\* the no-header fallback.
C20_FirstMatchingCell ==
    Parsed =>
        /\ \A ri \in Scanned :
              /\ OneToOne(call.df_raw[ri + 1], RowColMap(call.df_raw[ri + 1]))
              /\ FirstMatching(call.df_raw[ri + 1], RowColMap(call.df_raw[ri + 1]))
        /\ HeaderOrFallback

\* C20 as the scan has it: a category is claimed by the first cell that
\* matches it and claims no category tried before it, a cell claiming the
\* first category in the order credit, debit, amount, date, description,
\* reference that it matches and that no earlier cell has claimed.
C20_FirstOpenCategory ==
    Parsed =>
        /\ \A ri \in Scanned :
              /\ OneToOne(call.df_raw[ri + 1], RowColMap(call.df_raw[ri + 1]))
              /\ FirstOpen(call.df_raw[ri + 1], RowColMap(call.df_raw[ri + 1]))
        /\ HeaderOrFallback

\* C20, its case: the header "tarikh variz | variz | tarikh | shomare sanad"
\* in the twentieth row of the grid: its first cell is the credit column, the
\* date column is the third
C20_Witness ==
    /\ Parsed
    /\ ret.value.header_idx = 19
    /\ call.df_raw[20][1] = Tarikh \o <<" ">> \o Variz
    /\ ret.value.col_map = [credit |-> 1, date |-> 3, ref |-> 4]
    /\ \A n \in DOMAIN ret.value.txns : ret.value.txns[n].row_num > 20
    /\ \E n \in DOMAIN ret.value.txns :
          /\ ret.value.txns[n].row_num = 22
          /\ ret.value.txns[n].date = Ali

\* the options of the call with use_amount the other way round
OtherUseAmount == [call.opts EXCEPT !.use_amount = ~@]

\* C21: use_amount is never consulted: match_receipts returns the same
\* results with use_amount set and unset, whatever the rows, the
\* transactions and the other options; tier 2 applies its amount tolerance
\* either way.
C21_UseAmountIgnored ==
    (call.fn = "match_receipts" /\ ret.done) =>
        /\ ret.raised = Raises(KeptOf(call.pdf_rows, OtherUseAmount),
                               IndexedOf(call.bank_txns, OtherUseAmount))
        /\ ~ret.raised =>
              ret.value = match_receipts(call.pdf_rows, call.bank_txns, OtherUseAmount)

\* C21, its case: with use_amount unset and use_name set a row of the amount
\* 2000 is not_found while a transaction has its sender and the amount 1000
C21_Witness ==
    /\ Matched
    /\ ~call.opts.use_amount /\ call.opts.use_name
    /\ \E i \in DOMAIN ret.value :
          /\ ret.value[i].amount = 2000
          /\ ret.value[i].codes # <<>>
          /\ ret.value[i].status = "not_found"
          /\ \E n \in DOMAIN call.bank_txns :
                /\ CallPasses(call.bank_txns[n])
                /\ call.bank_txns[n].sender = ret.value[i].sender
                /\ call.bank_txns[n].amount = 1000

\* the marker of this pass
NewMarker == LockPrefix \o LedgerStem

\* the sheet rows of the results newly matched in this pass
NewlyMatched ==
    {results[i].bank_row : i \in {k \in DOMAIN results : results[k].status \in {"exact", "review"}}}

\* the transactions read from the sheet row that were locked already
LockedAt(ri) == {n \in DOMAIN bank_txns : bank_txns[n].is_locked /\ bank_txns[n].row_num = ri}

\* the cell of the sheet, empty beyond the width of the row
CellOf(df, ri, ci) == IF ci \in DOMAIN df[ri] THEN df[ri][ci] ELSE <<>>

\* what the write-back of the step did to sheet row ri: a row locked before
\* has its lock text in the lock column, a newly matched one the marker of
\* this pass, any other row its cell as it was; the other cells are as they
\* were
WrittenBack(ri) ==
    /\ IF LockedAt(ri) # {}
       THEN \E n \in LockedAt(ri) :
               CellOf(excel_file', ri, LockColumn) = bank_txns[n].lock_text
       ELSE IF ri \in NewlyMatched
       THEN CellOf(excel_file', ri, LockColumn) = NewMarker
       ELSE CellOf(excel_file', ri, LockColumn) = CellOf(excel_file, ri, LockColumn)
    /\ \A ci \in DOMAIN excel_file[ri] :
          ci # LockColumn => CellOf(excel_file', ri, ci) = excel_file[ri][ci]

\* C22: the write-back of analyze marks exactly the sheet rows of the
\* results of status exact or review and the rows of the transactions locked
\* already; a row locked already keeps its lock text, a newly matched row
\* gets the new marker, and a row only duplicate or not_found results refer
\* to gets no new marker.
C22_WriteBack ==
    [][(pc = "matched" /\ pc' = "idle") =>
          /\ DOMAIN excel_file' = DOMAIN excel_file
          /\ \A ri \in DOMAIN excel_file : WrittenBack(ri)
          /\ \A i \in DOMAIN results :
                results[i].status \in {"duplicate", "not_found"} =>
                    \/ results[i].bank_row \in NewlyMatched
                    \/ results[i].bank_row = NoRow
                    \/ CellOf(excel_file', results[i].bank_row, LockColumn) # NewMarker
                    \/ \E n \in LockedAt(results[i].bank_row) :
                          bank_txns[n].lock_text = NewMarker]_vars

\* C22, its case: after a pass the sheet holds the new marker on a row and,
\* on another row, a lock text of an earlier pass that is not the new marker
C22_Witness ==
    /\ pc = "idle" /\ passes = 1
    /\ \E ri \in DOMAIN excel_file, rj \in DOMAIN excel_file :
          /\ CellOf(excel_file, ri, LockColumn) = NewMarker
          /\ CellOf(excel_file, rj, LockColumn) # NewMarker
          /\ Contains(CellOf(excel_file, rj, LockColumn), LockMarker)

\* a ledger parser has returned
LedgerParsed == call.fn \in {"parse_html", "parse_pdf"} /\ ret.done

\* the statement the short ledgers are matched against
Statement == parse_excel(BankWithHeader)

\* every result of the rows against the statement is not_found, under every
\* setting of the options
NeverFound(ledger_rows) ==
    \A o \in Options :
        \A res \in {match_receipts(ledger_rows, Statement, o)} :
            \A i \in DOMAIN res : res[i].status = "not_found" /\ ~res[i].found

Alone(r) == match_receipts(<<r>>, call.bank_txns, call.opts)

\* C24: match_receipts does not consume bank transactions: the status, the
\* method and the bank row of the result of a ledger row are those of the
\* row matched on its own, whatever other rows the ledger holds and in
\* whatever order; two rows of the same code are both exact matches of the
\* same unlocked transaction.
C24_RowsIndependent ==
    Matched =>
        \A kept \in {KeptOf(call.pdf_rows, call.opts)} :
            /\ \A i \in DOMAIN ret.value :
                  \A alone \in {Alone(kept[i])} :
                      /\ Len(alone) = 1
                      /\ alone[1].found = ret.value[i].found
                      /\ alone[1].status = ret.value[i].status
                      /\ alone[1].match_method = ret.value[i].match_method
                      /\ alone[1].bank_row = ret.value[i].bank_row
                      /\ alone[1].bank_ref = ret.value[i].bank_ref
            /\ \A i \in DOMAIN ret.value : \A j \in DOMAIN ret.value :
                  (/\ kept[i].codes = kept[j].codes
                   /\ kept[i].credit = kept[j].credit
                   /\ kept[i].debit = kept[j].debit
                   /\ call.opts.use_tracking
                   /\ ret.value[i].status = "exact")
                  => /\ ret.value[j].status = "exact"
                     /\ ret.value[j].bank_row = ret.value[i].bank_row

\* C24, its case: two rows of the code 1234, from different senders, are
\* both exact matches of the one transaction of that code
C24_Witness ==
    /\ Matched
    /\ Len(ret.value) = 2 /\ Len(call.bank_txns) = 1
    /\ ret.value[1].sender # ret.value[2].sender
    /\ ret.value[1].codes = ret.value[2].codes
    /\ ~call.bank_txns[1].is_locked
    /\ ret.value[1].status = "exact" /\ ret.value[2].status = "exact"
    /\ ret.value[1].bank_row = call.bank_txns[1].row_num
    /\ ret.value[2].bank_row = call.bank_txns[1].row_num

\* the kept row looks up a code longer than four digits first, no indexed
\* transaction is filed under that code and some are under its last four
SuffixOnly(r, txns) ==
    /\ r.codes # <<>>
    /\ Len(r.codes[1]) > 4
    /\ by_last4(txns, r.codes[1]) = <<>>
    /\ by_last4(txns, LastN(r.codes[1], 4)) # <<>>

\* C25: a ledger code longer than four digits that no transaction is filed
\* under is matched in Tier 1 through its last four digits to a transaction
\* filed under them, with status exact (duplicate once the override has seen
\* a locked transaction); when one transaction alone is filed once under the
\* suffix it is the match whatever the two amounts.
C25_SuffixMatch ==
    (Matched /\ call.opts.use_tracking) =>
        \A kept \in {KeptOf(call.pdf_rows, call.opts)} :
        \A txns \in {IndexedOf(call.bank_txns, call.opts)} :
        \A i \in DOMAIN ret.value :
            SuffixOnly(kept[i], txns) =>
                \A cands \in {by_last4(txns, LastN(kept[i].codes[1], 4))} :
                    /\ ret.value[i].found
                    /\ \E n \in DOMAIN cands :
                          /\ ret.value[i].bank_row = cands[n].row_num
                          /\ ret.value[i].status =
                                IF cands[n].is_locked THEN "duplicate" ELSE "exact"
                    /\ Len(cands) = 1 =>
                          /\ ret.value[i].bank_row = cands[1].row_num
                          /\ ret.value[i].bank_ref = cands[1].ref
                          /\ ~cands[1].is_locked =>
                                ret.value[i].match_method
                                    = MethodCode \o LastN(kept[i].codes[1], 4)

\* C25, its case: the row of 99995678 at amount 1000 is an exact match of the
\* one transaction, of 11115678 at amount 5000, by the code 5678
C25_Witness ==
    /\ Matched /\ call.opts.use_tracking
    /\ Len(call.bank_txns) = 1 /\ Len(ret.value) = 1
    /\ call.pdf_rows[1].codes = <<LongLedgerCode>>
    /\ call.bank_txns[1].all_codes = {LongBankCode}
    /\ call.bank_txns[1].last4 = LongBankCode
    /\ call.bank_txns[1].amount = 5000 /\ ret.value[1].amount = 1000
    /\ ret.value[1].status = "exact"
    /\ ret.value[1].bank_ref = LongBankCode
    /\ ret.value[1].match_method = MethodCode \o <<"5","6","7","8">>

\* C26: the option flags gate the tiers: a result is exact only under
\* use_tracking and review only under use_name; under neither flag every
\* result is not_found; without use_tracking a match is a match of tier 2,
\* made for a row with codes that were not looked up.
C26_FlagsGateTiers ==
    Matched =>
        \A kept \in {KeptOf(call.pdf_rows, call.opts)} :
        \A i \in DOMAIN ret.value :
            /\ ret.value[i].status = "exact" => call.opts.use_tracking
            /\ ret.value[i].status = "review" => call.opts.use_name
            /\ (~call.opts.use_tracking /\ ~call.opts.use_name)
                  => ret.value[i].status = "not_found" /\ ~ret.value[i].found
            /\ (~call.opts.use_tracking /\ ret.value[i].found)
                  => /\ call.opts.use_name
                     /\ kept[i].codes # <<>>
                     /\ ret.value[i].status \in {"review", "duplicate"}
                     /\ ret.value[i].status = "review" =>
                           ret.value[i].match_method
                               \in {MethodNameAmount, MethodPartialName}

\* C26, its case: without use_tracking and with use_name the row of code
\* 1234 is matched by name and amount, for review, to the transaction of
\* that code
C26_Witness ==
    /\ Matched
    /\ ~call.opts.use_tracking /\ call.opts.use_name
    /\ Len(ret.value) = 1 /\ Len(call.bank_txns) = 1
    /\ call.pdf_rows[1].codes = <<<<"1","2","3","4">>>>
    /\ call.bank_txns[1].ref = <<"1","2","3","4">>
    /\ ret.value[1].status = "review"
    /\ ret.value[1].match_method = MethodNameAmount
    /\ ret.value[1].bank_row = call.bank_txns[1].row_num

=============================================================================
